---- MODULE Spec2Model ----
(***************************************************************************)
(* Verification model of torstenyar/supporter.                             *)
(*                                                                         *)
(* Part I  - EventStateTracker: slack_integration/event_handler.py         *)
(*           (handle_event, clean_old_message_states, save/load of the     *)
(*           message state file).  Time is counted in minutes since        *)
(*           datetime.min.                                                 *)
(* Part II - FailureLocator: utils/fetch_data.py                           *)
(*           (determine_point_of_failure, count_steps_between) and the     *)
(*           skipped-steps variant of utils/supporter.py.                  *)
(* Part III - WindowBuilder: load_log_preceding_steps and the analyze_logs *)
(*           stage of process_message.                                     *)
(* Part IV - EvidenceRetriever: search_similar_errors and                  *)
(*           filter_and_prioritize_errors.                                 *)
(* Part V  - QualityFilter: is_valid_resolved_error.                       *)
(* Part VI - ResilientInvoker: utils/ai_utils.py.                          *)
(* Part VII - the error overviews: create_combined_error_overview.         *)
(* Part VIII - process_message: the stages, retry_block_assembly,          *)
(*           retry_sending_message and send_message.                       *)
(***************************************************************************)
EXTENDS Integers, Sequences, FiniteSets, TLC

VARIABLES
    now,             \* datetime.now(), in minutes since datetime.min
    message_states,  \* the module-level dict: state_key -> message state
    persisted,       \* contents of message_states.json (serialised form)
    h_pc,            \* per handler thread: "idle" | "running" | "hung"
    h_key,           \* state_key the handler's pipeline runs for
    h_state,         \* the handler's local message_state object
    h_alias,         \* TRUE when that object is the one stored in message_states
    last,            \* history: what the last handler step did
    h_user,          \* the user whose reaction started the handler's pipeline
    h_start,         \* the time the handler's pipeline started
    ticks,           \* number of clock advances so far
    events,          \* number of ingress events handled so far
    log_entries,     \* FailureLocator input: the parsed log
    pof,             \* FailureLocator output
    args,            \* arguments of the pipeline function being called
    ret,             \* what that function returned
    invoker,         \* ResilientInvoker: state of one retry loop
    pm               \* process_message: position, calls made, replies posted

trackerVars == <<now, message_states, persisted, h_pc, h_key, h_state, h_alias,
                 h_user, h_start, last, ticks, events>>
logVars == <<log_entries, pof>>
stageVars == <<args, ret, invoker, pm>>
vars == <<trackerVars, logVars, stageVars>>

(***************************************************************************)
(* Bounds of the model.                                                    *)
(***************************************************************************)
NumHandlers == 2
MaxTicks == 1
MaxEvents == 3
MaxLogLen == 4
StartTime == 1064000000

Handlers == 1..NumHandlers

(***************************************************************************)
(* Part I: EventStateTracker                                               *)
(***************************************************************************)
DatetimeMin == 0
Cooldown == 5
Retention == 4320

Environment == "production"

CHANNEL_CONFIG ==
    [env \in {"development", "production"} |->
        IF env = "development" THEN {"C07557UUU2K"}
        ELSE {"C07557UUU2K", "C05D311FKPF", "C05CFG7D0TU"}]

REACTION_CONFIG ==
    [env \in {"development", "production"} |->
        IF env = "development" THEN {"test_tube"}
        ELSE {"yara-sup-1", "yara-sup-backup"}]

allowed_channels == CHANNEL_CONFIG[Environment]
valid_reactions == REACTION_CONFIG[Environment]

bot_user_id == "UBOT"
Users == {"U1", "U2"}

\* Ingress events.  "missing" names the required field the payload lacks.
MissingFields == {"type", "user", "reaction", "item", "channel", "ts"}
BaseEvent ==
    [type |-> "reaction_added", user |-> "U1", reaction |-> "yara-sup-1",
     channel |-> "C05D311FKPF", ts |-> "m1", missing |-> "none"]
ReactionEvents ==
    {[BaseEvent EXCEPT !.type = ty, !.user = u, !.ts = m] :
        ty \in {"reaction_added", "reaction_removed"}, u \in Users, m \in {"m1", "m2"}}
OtherEvents ==
    {[BaseEvent EXCEPT !.missing = f] : f \in MissingFields}
    \cup {[BaseEvent EXCEPT !.type = "message"],
          [BaseEvent EXCEPT !.user = bot_user_id],
          [BaseEvent EXCEPT !.channel = "C0OTHER"],
          [BaseEvent EXCEPT !.reaction = "thumbsup"]}
Events == ReactionEvents \cup OtherEvents

StateKey(e) == <<e.channel, e.ts>>
Keys == {<<c, t>> : c \in {"C05D311FKPF"}, t \in {"m1", "m2"}}

DefaultState ==
    [last_processed |-> DatetimeMin, processing |-> FALSE, user_reactions |-> {}]

\* validate_slack_event: TRUE when no ValueError is raised.
validate_slack_event(e) ==
    /\ e.missing \notin {"type", "user", "reaction", "item"}
    /\ e.type \in {"reaction_added", "reaction_removed"}
    /\ e.missing \notin {"channel", "ts"}

\* list(set): one list holding the elements of the set.
RECURSIVE SetToList(_)
SetToList(S) ==
    IF S = {} THEN <<>>
    ELSE LET x == CHOOSE y \in S : TRUE
         IN <<x>> \o SetToList(S \ {x})

ListToSet(l) == {l[i] : i \in 1..Len(l)}

\* datetime.isoformat / datetime.fromisoformat
isoformat(t) == <<"iso", t>>
fromisoformat(s) == s[2]

\* save_message_states: the JSON document written to MESSAGE_STATE_FILE.
save_message_states(states) ==
    [k \in DOMAIN states |->
        [last_processed |-> isoformat(states[k].last_processed),
         processing |-> states[k].processing,
         user_reactions |-> SetToList(states[k].user_reactions)]]

\* load_message_states: the dict rebuilt from MESSAGE_STATE_FILE.
load_message_states(file) ==
    [k \in DOMAIN file |->
        [last_processed |-> fromisoformat(file[k].last_processed),
         processing |-> file[k].processing,
         user_reactions |-> ListToSet(file[k].user_reactions)]]

\* clean_old_message_states keeping a key that is exactly Retention old.
clean_old_message_states_Inclusive(states, t) ==
    [k \in {x \in DOMAIN states : states[x].last_processed >= t - Retention}
        |-> states[k]]

\* clean_old_message_states at time t.
clean_old_message_states(states, t) ==
    [k \in {x \in DOMAIN states : states[x].last_processed > t - Retention}
        |-> states[k]]

\* message_states.get(state_key, default)
GetState(states, k) == IF k \in DOMAIN states THEN states[k] ELSE DefaultState

\* A handler that does not look at user_reactions.
IsDuplicate_Never(st, user) == FALSE

\* "if user_id in message_state['user_reactions']"
IsDuplicate(st, user) == user \in st.user_reactions

\* The gate of handle_event that decides whether process_message runs.
ShouldProcess(st, t) ==
    /\ ~st.processing
    /\ (t - st.last_processed) > Cooldown

\* A finally block that records the time but leaves the flag set.
FinallyState_KeepsFlag(st, t) == [st EXCEPT !.last_processed = t]

\* The finally block of handle_event.
FinallyState(st, t) == [st EXCEPT !.processing = FALSE, !.last_processed = t]

Put(states, k, st) ==
    [x \in DOMAIN states \cup {k} |-> IF x = k THEN st ELSE states[x]]

Evicted(before, after) ==
    {[key |-> k, last_processed |-> before[k].last_processed] :
        k \in DOMAIN before \ DOMAIN after}

NoKey == <<"none", "none">>
Last(kind, key, saved, evicted) ==
    [kind |-> kind, key |-> key, saved |-> saved, evicted |-> evicted]

NoUser == "none"
NoTime == -1

FreeHandlers == {h \in Handlers : h_pc[h] = "idle"}

\* Handlers whose local object is the object stored under key k.
AliasedOn(k) == {h \in Handlers : h_pc[h] # "idle" /\ h_key[h] = k /\ h_alias[h]}

\* The trailing sweep of handle_event (lines 233-235) applied to dict `mid`.
\* `alias1` tells which handlers hold the object stored in `mid` under their key;
\* a handler whose key is evicted keeps its object, which is then in no dict.
SweepAndSave(mid, kind, key, alias1) ==
    LET swept == clean_old_message_states(mid, now)
    IN /\ message_states' = swept
       /\ persisted' = save_message_states(swept)
       /\ h_alias' = [h \in Handlers |-> alias1[h] /\ h_key[h] \in DOMAIN swept]
       /\ last' = Last(kind, key, TRUE, Evicted(mid, swept))

\* An event that returns before any state is read.
Rejected(kind) ==
    /\ last' = Last(kind, NoKey, FALSE, {})
    /\ UNCHANGED <<now, message_states, persisted, h_pc, h_key, h_state, h_alias,
                   h_user, h_start, ticks>>

\* handle_event up to the point where it returns or awaits process_message.
HandleEvent(e) ==
    /\ events < MaxEvents
    /\ events' = events + 1
    /\ UNCHANGED <<logVars, stageVars>>
    /\ IF ~validate_slack_event(e) THEN Rejected("invalid")
       ELSE IF e.reaction \notin valid_reactions THEN
            \* else branch "unhandled event type", then the trailing sweep
            /\ SweepAndSave(message_states, "unhandled", NoKey, h_alias)
            /\ UNCHANGED <<now, h_pc, h_key, h_state, h_user, h_start, ticks>>
       ELSE IF e.user = bot_user_id THEN Rejected("bot")
       ELSE IF e.channel \notin allowed_channels THEN Rejected("channel")
       ELSE
         LET k == StateKey(e)
             st == GetState(message_states, k)
         IN IF e.type = "reaction_added" THEN
              IF IsDuplicate(st, e.user) THEN
                  /\ last' = Last("duplicate", k, FALSE, {})
                  /\ UNCHANGED <<now, message_states, persisted, h_pc, h_key,
                                 h_state, h_alias, h_user, h_start, ticks>>
              ELSE
                LET st1 == [st EXCEPT !.user_reactions = @ \cup {e.user}]
                IN IF ShouldProcess(st1, now) THEN
                     \* processing = True, stored, saved; process_message awaited
                     /\ FreeHandlers # {}
                     /\ LET h == CHOOSE x \in FreeHandlers : \A y \in FreeHandlers : x <= y
                            st2 == [st1 EXCEPT !.processing = TRUE]
                            ms == Put(message_states, k, st2)
                        IN /\ message_states' = ms
                           /\ persisted' = save_message_states(ms)
                           /\ h_pc' = [h_pc EXCEPT ![h] = "running"]
                           /\ h_key' = [h_key EXCEPT ![h] = k]
                           /\ h_state' = [h_state EXCEPT ![h] = st2]
                           /\ h_alias' = [x \in Handlers |->
                                            IF x = h THEN TRUE
                                            ELSE h_alias[x] /\ h_key[x] # k]
                           /\ last' = Last("started", k, TRUE, {})
                           /\ h_user' = [h_user EXCEPT ![h] = e.user]
                           /\ h_start' = [h_start EXCEPT ![h] = now]
                     /\ UNCHANGED <<now, ticks>>
                   ELSE
                     \* the user was added to the shared object in place
                     /\ h_state' = [h \in Handlers |->
                                      IF h \in AliasedOn(k) THEN st1 ELSE h_state[h]]
                     /\ UNCHANGED <<now, h_pc, h_key, h_user, h_start, ticks>>
                     /\ SweepAndSave(IF k \in DOMAIN message_states
                                     THEN Put(message_states, k, st1)
                                     ELSE message_states, "added", k, h_alias)
            ELSE
              \* reaction_removed
              LET st1 == [st EXCEPT !.user_reactions = @ \ {e.user}]
              IN /\ h_state' = [h \in Handlers |->
                                  IF h \in AliasedOn(k) THEN st1 ELSE h_state[h]]
                 /\ UNCHANGED <<now, h_pc, h_key, h_user, h_start, ticks>>
                 /\ SweepAndSave(Put(message_states, k, st1), "removed", k, h_alias)

\* process_message ends (returns, or an exception escapes it): the finally
\* block runs, and unless the exception propagates, the trailing sweep.
PipelineEnds(h, escaped) ==
    /\ h_pc[h] = "running"
    /\ LET k == h_key[h]
           st == FinallyState(h_state[h], now)
           ms == Put(message_states, k, st)
           \* message_states[state_key] now holds this handler's object
           alias1 == [x \in Handlers |-> h_alias[x] /\ x # h /\ h_key[x] # k]
       IN /\ h_pc' = [h_pc EXCEPT ![h] = "idle"]
          /\ h_key' = [h_key EXCEPT ![h] = NoKey]
          /\ h_state' = [h_state EXCEPT ![h] = DefaultState]
          /\ h_user' = [h_user EXCEPT ![h] = NoUser]
          /\ h_start' = [h_start EXCEPT ![h] = NoTime]
          /\ IF escaped
             THEN /\ message_states' = ms
                  /\ persisted' = save_message_states(ms)
                  /\ h_alias' = alias1
                  /\ last' = Last("escaped", k, TRUE, {})
             ELSE SweepAndSave(ms, "finished", k, alias1)
    /\ UNCHANGED <<now, ticks, events>>
    /\ UNCHANGED <<logVars, stageVars>>

\* An external call inside process_message never returns.
PipelineHangs(h) ==
    /\ h_pc[h] = "running"
    /\ h_pc' = [h_pc EXCEPT ![h] = "hung"]
    /\ last' = Last("hung", h_key[h], FALSE, {})
    /\ UNCHANGED <<now, message_states, persisted, h_key, h_state, h_alias,
                   h_user, h_start, ticks, events>>
    /\ UNCHANGED <<logVars, stageVars>>

\* The process is restarted: message_states = load_message_states() (line 148).
Restart ==
    /\ \E h \in Handlers : h_pc[h] # "idle"
    /\ message_states' = load_message_states(persisted)
    /\ h_pc' = [h \in Handlers |-> "idle"]
    /\ h_key' = [h \in Handlers |-> NoKey]
    /\ h_state' = [h \in Handlers |-> DefaultState]
    /\ h_alias' = [h \in Handlers |-> FALSE]
    /\ h_user' = [h \in Handlers |-> NoUser]
    /\ h_start' = [h \in Handlers |-> NoTime]
    /\ last' = Last("restart", NoKey, FALSE, {})
    /\ UNCHANGED <<now, persisted, ticks, events>>
    /\ UNCHANGED <<logVars, stageVars>>

Deltas == {Cooldown, Cooldown + 1, Retention}

Tick(d) ==
    /\ ticks < MaxTicks
    /\ ticks' = ticks + 1
    /\ now' = now + d
    /\ last' = Last("tick", NoKey, FALSE, {})
    /\ UNCHANGED <<message_states, persisted, h_pc, h_key, h_state, h_alias,
                   h_user, h_start, events>>
    /\ UNCHANGED <<logVars, stageVars>>

EmptyStates == [k \in {} |-> DefaultState]

TrackerInit ==
    /\ now = StartTime
    /\ message_states = EmptyStates
    /\ persisted = save_message_states(EmptyStates)
    /\ h_pc = [h \in Handlers |-> "idle"]
    /\ h_key = [h \in Handlers |-> NoKey]
    /\ h_state = [h \in Handlers |-> DefaultState]
    /\ h_alias = [h \in Handlers |-> FALSE]
    /\ h_user = [h \in Handlers |-> NoUser]
    /\ h_start = [h \in Handlers |-> NoTime]
    /\ last = Last("init", NoKey, FALSE, {})
    /\ ticks = 0
    /\ events = 0

NotLocated == [done |-> FALSE]

\* No pipeline function has been called, no retry loop is running.
NoArgs == [fn |-> "none"]
NotReturned == [returned |-> FALSE]
InvokerIdle == [pc |-> "idle"]
PipelineIdle == [pc |-> "idle"]

StageInit ==
    /\ args = NoArgs
    /\ ret = NotReturned
    /\ invoker = InvokerIdle
    /\ pm = PipelineIdle

Init ==
    /\ TrackerInit
    /\ log_entries = <<>>
    /\ pof = NotLocated
    /\ StageInit

Next ==
    \/ \E e \in Events : HandleEvent(e)
    \/ \E h \in Handlers, escaped \in BOOLEAN : PipelineEnds(h, escaped)
    \/ \E d \in Deltas : Tick(d)

Spec == Init /\ [][Next]_vars

\* The same program with the two ways a pipeline can fail to finish: an
\* external call that never returns, and a restart of the process.  A running
\* pipeline either ends or blocks for good; nothing else is scheduled.
NextLive ==
    \/ Next
    \/ \E h \in Handlers : PipelineHangs(h)
    \/ Restart

PipelineStep(h) == (\E escaped \in BOOLEAN : PipelineEnds(h, escaped)) \/ PipelineHangs(h)

LiveSpec ==
    Init /\ [][NextLive]_vars /\ \A h \in Handlers : WF_vars(PipelineStep(h))

(***************************************************************************)
(* Part II: FailureLocator                                                 *)
(***************************************************************************)
None == "none"

\* A log entry: its eventType, its stepUuid (None when the key is absent) and
\* whether its debug text contains 'Catching error in step'.
StepUuids == {"A", "B"}
LogEntries ==
    [eventType : {"STEP_COMPLETED"}, stepUuid : StepUuids \cup {None}, catch : {FALSE}]
    \cup [eventType : {"STEP_FAILED", "OTHER"}, stepUuid : StepUuids \cup {None},
          catch : BOOLEAN]
    \cup [eventType : {"TASK_FAILED"}, stepUuid : {None}, catch : {FALSE}]

RECURSIVE SeqsUpTo(_, _)
SeqsUpTo(S, n) ==
    IF n = 0 THEN {<<>>}
    ELSE LET shorter == SeqsUpTo(S, n - 1)
         IN shorter \cup {Append(l, x) : l \in {y \in shorter : Len(y) = n - 1}, x \in S}

Logs == SeqsUpTo(LogEntries, MaxLogLen)

Min(S) == CHOOSE x \in S : \A y \in S : x <= y
Max(S) == CHOOSE x \in S : \A y \in S : x >= y

\* Indices are 1-based; 0 stands for Python's None.
\* next(index for ... if entry.get('eventType') == 'TASK_FAILED')
task_failed_index(log) ==
    LET hits == {i \in 1..Len(log) : log[i].eventType = "TASK_FAILED"}
    IN IF hits = {} THEN 0 ELSE Min(hits)

\* next(i for i in range(task_failed_index - 1, -1, -1) if ... 'STEP_COMPLETED')
last_completed_index(log, tf) ==
    LET hits == {i \in 1..(tf - 1) : log[i].eventType = "STEP_COMPLETED"}
    IN IF hits = {} THEN 0 ELSE Max(hits)

\* The backward traversal from TASK_FAILED, reversed to chronological order:
\* it stops at and includes the nearest STEP_COMPLETED, or takes the whole prefix.
steps_after_last_completed(log, tf) ==
    LET lc == last_completed_index(log, tf)
    IN IF lc = 0 THEN SubSeq(log, 1, tf - 1) ELSE SubSeq(log, lc, tf - 1)

\* The position of the last STEP_FAILED of the window instead of the first.
first_failed_position_Last(window) ==
    LET hits == {i \in 2..Len(window) : window[i].eventType = "STEP_FAILED"}
    IN IF hits = {} THEN 0 ELSE Max(hits)

\* Position in the window (1-based) of the first STEP_FAILED after its first
\* entry, 0 when there is none: "for i in range(1, len(...))".
first_failed_position(window) ==
    LET hits == {i \in 2..Len(window) : window[i].eventType = "STEP_FAILED"}
    IN IF hits = {} THEN 0 ELSE Min(hits)

\* "for entry in log_entries: if 'Catching error in step' in entry['debug']":
\* the stepUuid of the last such entry.
catch_error_failed_step_id(log) ==
    LET hits == {i \in 1..Len(log) : log[i].catch}
    IN IF hits = {} THEN None ELSE log[Max(hits)].stepUuid

\* count_steps_between from the first occurrence of start_id.
count_steps_between_First(log, start_id, end_id) ==
    LET start_indices == {i \in 1..Len(log) : log[i].stepUuid = start_id}
        end_indices == {i \in 1..Len(log) : log[i].stepUuid = end_id}
    IN IF start_indices = {} \/ end_indices = {} THEN 0
       ELSE LET start_index == Min(start_indices)
                end_index == Max(end_indices)
            IN IF start_index >= end_index THEN 0
               ELSE Cardinality({i \in (start_index + 1)..(end_index - 1) :
                                    log[i].stepUuid # None})

\* count_steps_between (fetch_data.py)
count_steps_between(log, start_id, end_id) ==
    LET start_indices == {i \in 1..Len(log) : log[i].stepUuid = start_id}
        end_indices == {i \in 1..Len(log) : log[i].stepUuid = end_id}
    IN IF start_indices = {} \/ end_indices = {} THEN 0
       ELSE LET start_index == Max(start_indices)
                end_index == Max(end_indices)
            IN IF start_index >= end_index THEN 0
               ELSE Cardinality({i \in (start_index + 1)..(end_index - 1) :
                                    log[i].stepUuid # None})

PointOfFailure(failed, catch, between) ==
    [failed_step_id |-> failed, catch_error_step_id |-> catch, steps_between |-> between]

\* determine_point_of_failure (fetch_data.py), the one process_message calls.
determine_point_of_failure(log) ==
    LET tf == task_failed_index(log)
    IN IF tf = 0 THEN PointOfFailure(None, None, 0)
       ELSE IF last_completed_index(log, tf) = 0 THEN PointOfFailure(None, None, 0)
       ELSE LET window == steps_after_last_completed(log, tf)
            IN IF Len(window) <= 1
               THEN PointOfFailure(window[1].stepUuid, None, 0)
               ELSE LET pos == first_failed_position(window)
                        final == IF pos = 0 THEN None ELSE window[pos].stepUuid
                        catch == catch_error_failed_step_id(log)
                    IN IF catch # None /\ final # None
                       THEN PointOfFailure(final, catch,
                                           count_steps_between(log, catch, final))
                       ELSE PointOfFailure(final, catch, 0)

\* "if i > 0": every located step counts as reached by skipping.
skipped_steps_flag_Always(pos) == pos - 1 > 0

\* "if i > 1: skipped_steps = True", i the 0-based position in the window.
skipped_steps_flag(pos) == pos - 1 > 1

Narrative(kind, failed, skipped, raised) ==
    [narrative |-> kind, failed_step_id |-> failed, skipped_steps |-> skipped,
     raised |-> raised]

\* determine_point_of_failure (utils/supporter.py), which computes skipped_steps
\* and words the narrative after it.  raised: a KeyError, IndexError or TypeError.
narrative_point_of_failure(log) ==
    LET tf == task_failed_index(log)
    IN IF tf = 0 THEN Narrative("no_task_failed", None, FALSE, FALSE)
       ELSE LET window == steps_after_last_completed(log, tf)
            IN IF Len(window) = 0 THEN Narrative("none", None, FALSE, TRUE)
               ELSE IF Len(window) = 1
               THEN Narrative("no_step", window[1].stepUuid, FALSE,
                              window[1].stepUuid = None)
               ELSE LET pos == first_failed_position(window)
                    IN IF pos = 0 THEN Narrative("none", None, FALSE, TRUE)
                       ELSE IF window[pos].stepUuid = None
                       THEN Narrative("none", None, FALSE, TRUE)
                       ELSE Narrative(IF skipped_steps_flag(pos) THEN "skipping"
                                      ELSE "immediately_after",
                                      window[pos].stepUuid, skipped_steps_flag(pos), FALSE)

\* The locator is applied to the log.
Locate ==
    /\ pof = NotLocated
    /\ pof' = [done |-> TRUE,
               located |-> determine_point_of_failure(log_entries),
               described |-> narrative_point_of_failure(log_entries)]
    /\ UNCHANGED <<log_entries, trackerVars, stageVars>>

InitPOF ==
    /\ TrackerInit
    /\ log_entries \in Logs
    /\ pof = NotLocated
    /\ StageInit


(***************************************************************************)
(* Part III: WindowBuilder - load_log_preceding_steps (utils/fetch_data.py) *)
(* and the analyze_logs stage of process_message that calls it.            *)
(* An event's timestamp and error are identified with its position in the  *)
(* log; window entries name the log positions their data was copied from.  *)
(***************************************************************************)
MaxWindowLen == 4
MaxBudget == 2

CollectedTypes ==
    {"STEP_COMPLETED", "STEP_FAILED", "SUBTASK_COMPLETED", "SUBTASK_FAILED",
     "TASK_FAILED"}
RegularTypes == {"STEP_COMPLETED", "STEP_FAILED"}

\* current_step.get('stepId', '')
StepIdOf(e) == IF "stepId" \in DOMAIN e THEN e.stepId ELSE ""

\* current_step.get('stepUuid') or f"{event_type}_{stepId}"
step_identity(e) ==
    IF e.stepUuid # None
    THEN [uuid |-> e.stepUuid, eventType |-> None, stepId |-> None]
    ELSE [uuid |-> None, eventType |-> e.eventType, stepId |-> StepIdOf(e)]

\* A window anchored at the last occurrence of the failed step id.
failed_step_index_Last(log, failed_step_id) ==
    LET hits == {i \in 1..Len(log) : log[i].stepUuid = failed_step_id}
    IN IF hits = {} THEN 0 ELSE Max(hits)

\* next(index for entry in log_entries if entry.get('stepUuid') == failed_step_id)
failed_step_index(log, failed_step_id) ==
    LET hits == {i \in 1..Len(log) : log[i].stepUuid = failed_step_id}
    IN IF hits = {} THEN 0 ELSE Min(hits)

NoSteps == [unique_steps |-> <<>>, regular_step_count |-> 0]

\* One iteration of the backward loop at position i, for a collected event.
CollectStep(log, i, st) ==
    LET k == step_identity(log[i])
        n == Len(st.unique_steps)
        seen == \E j \in 1..n : st.unique_steps[j].key = k
    IN IF ~seen
       THEN [unique_steps |->
                Append(st.unique_steps,
                       [key |-> k, step |-> i, retry_count |-> 1,
                        first_attempt |-> i, last_attempt |-> i]),
             regular_step_count |->
                st.regular_step_count
                + (IF log[i].eventType \in RegularTypes THEN 1 ELSE 0)]
       ELSE [st EXCEPT !.unique_steps =
                [j \in 1..n |->
                    IF st.unique_steps[j].key = k
                    THEN [st.unique_steps[j] EXCEPT !.retry_count = @ + 1,
                                                    !.first_attempt = i]
                    ELSE st.unique_steps[j]]]

\* A loop that stops one regular step late.
BudgetReached_Late(count, steps_to_include) == count > steps_to_include

\* "if regular_step_count >= steps_to_include: break"
BudgetReached(count, steps_to_include) == count >= steps_to_include

\* for i in range(failed_step_index, -1, -1)
RECURSIVE WalkBack(_, _, _, _)
WalkBack(log, i, st, steps_to_include) ==
    IF i = 0 THEN st
    ELSE IF log[i].eventType \notin CollectedTypes
         THEN WalkBack(log, i - 1, st, steps_to_include)
         ELSE LET st1 == CollectStep(log, i, st)
              IN IF BudgetReached(st1.regular_step_count, steps_to_include)
                 THEN st1
                 ELSE WalkBack(log, i - 1, st1, steps_to_include)

NoRetry == [count |-> 1]
CatchSentinel == "FAILED STEP THAT CAUSED THE CATCH ERROR TRIGGER"

\* The combined step built from one unique_steps value; origin is the
\* eventType of the copied event, eventType the tag left after stripping.
combined_step(log, info, catch_error_step_id) ==
    [stepUuid |-> log[info.step].stepUuid,
     step |-> info.step,
     origin |-> log[info.step].eventType,
     retry |-> IF info.retry_count > 1
               THEN [count |-> info.retry_count,
                     first_attempt |-> info.first_attempt,
                     last_attempt |-> info.last_attempt]
               ELSE NoRetry,
     eventType |-> IF catch_error_step_id # None
                      /\ log[info.step].stepUuid # None
                      /\ log[info.step].stepUuid = catch_error_step_id
                   THEN CatchSentinel ELSE None]

Reverse(q) == [i \in 1..Len(q) |-> q[Len(q) + 1 - i]]

load_log_preceding_steps(log, failed_step_id, catch_error_step_id, steps_to_include) ==
    LET start == failed_step_index(log, failed_step_id)
    IN IF start = 0 THEN <<>>
       ELSE LET st == WalkBack(log, start, NoSteps, steps_to_include)
                preceding_steps ==
                    [j \in 1..Len(st.unique_steps) |->
                        combined_step(log, st.unique_steps[j], catch_error_step_id)]
            IN Reverse(preceding_steps)

\* The analyze_logs stage of process_message and what follows a failure in it.
DefaultStepsToInclude == 10

\* A stage that never gives up on the located point of failure.
PointNotFound_Never(loc) == FALSE

\* "if failed_step_id is None: raise ValueError(...)"
PointNotFound(loc) == loc.failed_step_id = None

\* except ValueError: send_error_message(channel_id, message_timestamp, ...)
ErrorReply == [channel |-> BaseEvent.channel, thread_ts |-> BaseEvent.ts,
               text |-> "Invalid data format"]

Aborted(calls) == [calls |-> calls, raised |-> "ValueError", replies |-> <<ErrorReply>>]

analyze_logs(log, loc) ==
    IF PointNotFound(loc) THEN Aborted(<<"determine_point_of_failure">>)
    ELSE LET preceding_steps_log ==
                 load_log_preceding_steps(log, loc.failed_step_id,
                                          loc.catch_error_step_id,
                                          DefaultStepsToInclude + loc.steps_between)
         IN IF preceding_steps_log = <<>>
            THEN Aborted(<<"determine_point_of_failure", "load_log_preceding_steps">>)
            ELSE [calls |-> <<"determine_point_of_failure", "load_log_preceding_steps",
                              "get_uardi_context">>,
                  raised |-> None, replies |-> <<>>,
                  preceding_steps_log |-> preceding_steps_log]

\* process_message from the return of determine_point_of_failure onwards.
AnalyzeLogs ==
    /\ pof # NotLocated
    /\ ret = NotReturned
    /\ ret' = [returned |-> TRUE, value |-> analyze_logs(log_entries, pof.located)]
    /\ UNCHANGED <<trackerVars, logVars, args, invoker, pm>>

NextPOF == Locate \/ AnalyzeLogs

SpecPOF == InitPOF /\ [][NextPOF]_vars

\* Logs for the window builder: events of the five collected types and of
\* another type, with a stepUuid or with a stepId only.
WindowEntries ==
    [eventType : {"STEP_COMPLETED", "STEP_FAILED"}, stepUuid : StepUuids, stepId : {"1"}]
    \cup [eventType : {"STEP_FAILED", "SUBTASK_COMPLETED", "SUBTASK_FAILED"},
          stepUuid : {None}, stepId : {"1"}]
    \cup [eventType : {"SUBTASK_COMPLETED", "OTHER"}, stepUuid : {"A"}, stepId : {"1"}]
    \cup [eventType : {"TASK_FAILED"}, stepUuid : {None}, stepId : {""}]

WindowLogs == SeqsUpTo(WindowEntries, MaxWindowLen)

WindowArgs ==
    [fn : {"load_log_preceding_steps"},
     failed_step_id : StepUuids \cup {"Z"},
     catch_error_step_id : {None, "A"},
     steps_to_include : 1..MaxBudget]

LoadWindow ==
    /\ args.fn = "load_log_preceding_steps"
    /\ ret = NotReturned
    /\ ret' = [returned |-> TRUE,
               value |-> load_log_preceding_steps(log_entries, args.failed_step_id,
                                                  args.catch_error_step_id,
                                                  args.steps_to_include)]
    /\ UNCHANGED <<trackerVars, logVars, args, invoker, pm>>

\* uardi_context['step_descriptions']: the steps the context store describes.
StepDescriptions == {"A"}

\* merge_log_and_uardi: a copy of every step, with the stored step type added
\* for the steps the context store describes; the eventType tag is kept.
merge_log_and_uardi(preceding_steps_log) ==
    [j \in 1..Len(preceding_steps_log) |->
        [stepUuid |-> preceding_steps_log[j].stepUuid,
         step |-> preceding_steps_log[j].step,
         origin |-> preceding_steps_log[j].origin,
         retry |-> preceding_steps_log[j].retry,
         eventType |-> preceding_steps_log[j].eventType,
         stepType |-> IF preceding_steps_log[j].stepUuid \in StepDescriptions
                      THEN "described" ELSE None]]

\* The labels the two consumers of the steps log compare eventType with.
ContextCatchLabel == "CATCH ERROR STEP"
CauseCatchLabel == "FAILED STEP THAT CAUSED THE CATCH ERROR TRIGGER"
CauseLookback == 10

\* next((i for i, step in enumerate(steps_log) if step.get('eventType') == label), None)
catch_error_index(steps_log, label) ==
    LET hits == {i \in 1..Len(steps_log) : steps_log[i].eventType = label}
    IN IF hits = {} THEN 0 ELSE Min(hits)

Unsplit(steps_log) ==
    [split |-> FALSE, actual_error_steps_log |-> steps_log,
     alternative_path_steps_log |-> <<>>]

\* generate_error_context: the steps log is split at the catch entry.
generate_error_context(steps_log, catch_error_trigger) ==
    LET idx == catch_error_index(steps_log, ContextCatchLabel)
    IN IF ~catch_error_trigger \/ idx = 0 THEN Unsplit(steps_log)
       ELSE [split |-> TRUE,
             actual_error_steps_log |-> SubSeq(steps_log, 1, idx),
             alternative_path_steps_log |-> SubSeq(steps_log, idx, Len(steps_log))]

\* perform_cause_analysis: the same split, keeping CauseLookback steps before it.
perform_cause_analysis(steps_log, catch_error_trigger) ==
    LET idx == catch_error_index(steps_log, CauseCatchLabel)
    IN IF ~catch_error_trigger \/ idx = 0 THEN Unsplit(steps_log)
       ELSE [split |-> TRUE,
             actual_error_steps_log |->
                 SubSeq(steps_log, Max({1, idx - CauseLookback}), idx),
             alternative_path_steps_log |-> SubSeq(steps_log, idx, Len(steps_log))]

\* process_message, stage error_description: "catch_error = True" when a
\* catch_error_step_id was reported.
GenerateErrorContext ==
    /\ args.fn = "load_log_preceding_steps"
    /\ ret # NotReturned
    /\ ret.value # <<>>
    /\ pm = PipelineIdle
    /\ pm' = [pc |-> "error_description",
              error_description |->
                  generate_error_context(merge_log_and_uardi(ret.value),
                                         args.catch_error_step_id # None)]
    /\ UNCHANGED <<trackerVars, logVars, args, ret, invoker>>

\* process_message, stage cause_analysis.
PerformCauseAnalysis ==
    /\ args.fn = "load_log_preceding_steps"
    /\ pm.pc = "error_description"
    /\ pm' = [pc |-> "cause_analysis",
              error_description |-> pm.error_description,
              cause_analysis |->
                  perform_cause_analysis(merge_log_and_uardi(ret.value),
                                         args.catch_error_step_id # None)]
    /\ UNCHANGED <<trackerVars, logVars, args, ret, invoker>>

InitWindow ==
    /\ TrackerInit
    /\ log_entries \in WindowLogs
    /\ pof = NotLocated
    /\ args \in WindowArgs
    /\ ret = NotReturned
    /\ invoker = InvokerIdle
    /\ pm = PipelineIdle

NextWindow == LoadWindow \/ GenerateErrorContext \/ PerformCauseAnalysis

SpecWindow == InitWindow /\ [][NextWindow]_vars

(***************************************************************************)
(* Part IV: EvidenceRetriever - search_similar_errors and                  *)
(* filter_and_prioritize_errors (utils/fetch_data.py).                     *)
(* Scores are counted in thousandths, weights and the relative threshold   *)
(* in tenths.  Engine scores are multiples of 40 so that every halving of  *)
(* the fusion is exact.  A text is a sequence of words separated by single *)
(* blanks.                                                                 *)
(***************************************************************************)
MaxProbes == 2
MaxBulk == 16

FieldOrder ==
    <<"dev_cause_vector", "dev_cause_enriched_vector", "ai_context_vector",
      "debug_pof_vector", "type_pof_vector", "name_pof_vector",
      "description_pof_vector", "ai_description_pof_vector", "payload_pof_vector">>

vector_weights ==
    [f \in {FieldOrder[i] : i \in 1..Len(FieldOrder)} |->
        CASE f = "dev_cause_vector" -> 10
          [] f = "dev_cause_enriched_vector" -> 6
          [] f = "ai_context_vector" -> 0
          [] f = "debug_pof_vector" -> 4
          [] f = "type_pof_vector" -> 7
          [] f = "name_pof_vector" -> 2
          [] f = "description_pof_vector" -> 2
          [] f = "ai_description_pof_vector" -> 7
          [] f = "payload_pof_vector" -> 5]

FieldIndex(f) == CHOOSE i \in 1..Len(FieldOrder) : FieldOrder[i] = f

\* str.lower() on the words of the model's vocabulary.
LowerWord(w) ==
    CASE w = "Unknown" -> "unknown"
      [] w = "Not" -> "not"
      [] w = "The" -> "the"
      [] w = "Still" -> "still"
      [] OTHER -> w

lower(text) == [i \in 1..Len(text) |-> LowerWord(text[i])]

\* "phrase in text" for a phrase of whole words.
Contains(text, phrase) ==
    \E i \in 1..(Len(text) - Len(phrase) + 1) :
        SubSeq(text, i, i + Len(phrase) - 1) = phrase

\* doc.get('@search.score', 0) * weight
weighted_score(hit) == hit.score * vector_weights[hit.field]

\* A fusion that keeps the running score and ignores the new maximum.
fused_score_Keep(max_score, current_score) == current_score

\* A fusion that adds half of the kept score to the strongest hit.
fused_score_Sum(max_score, current_score) == max_score + (current_score \div 2)

\* max_score - (max_score - current_score) * 0.5
fused_score(max_score, current_score) == max_score - ((max_score - current_score) \div 2)

\* One pass of the "async for doc in results" body; combined_results is kept
\* as the sequence of its items in insertion order.
combine_hit(combined_results, hit) ==
    LET score == weighted_score(hit)
        n == Len(combined_results)
    IN IF \E j \in 1..n : combined_results[j].task_run_id = hit.task_run_id
       THEN [j \in 1..n |->
                IF combined_results[j].task_run_id = hit.task_run_id
                THEN LET max_score == Max({combined_results[j].max_score, score})
                     IN [combined_results[j] EXCEPT
                            !.score = fused_score(max_score, combined_results[j].score),
                            !.max_score = max_score,
                            !.appearances = @ + 1]
                ELSE combined_results[j]]
       ELSE Append(combined_results,
                   [task_run_id |-> hit.task_run_id, score |-> score,
                    max_score |-> score, appearances |-> 1])

RECURSIVE combine_hits(_, _)
combine_hits(combined_results, hits) ==
    IF hits = <<>> THEN combined_results
    ELSE combine_hits(combine_hit(combined_results, Head(hits)), Tail(hits))

\* sorted(..., key=score, reverse=True): stable, descending.
RECURSIVE InsertSorted(_, _)
InsertSorted(sorted, x) ==
    IF sorted = <<>> THEN <<x>>
    ELSE IF Head(sorted).score >= x.score
         THEN <<Head(sorted)>> \o InsertSorted(Tail(sorted), x)
         ELSE <<x>> \o sorted

RECURSIVE SortByScore(_, _)
SortByScore(sorted, rest) ==
    IF rest = <<>> THEN sorted
    ELSE SortByScore(InsertSorted(sorted, Head(rest)), Tail(rest))

\* error['score'] >= absolute_threshold and error['score'] >= relative_threshold * max_score
PassesThresholds(error, max_score, absolute_threshold, relative_threshold) ==
    /\ error.score >= absolute_threshold
    /\ error.score * 10 >= relative_threshold * max_score

max_same_step == 3
max_total == 15

\* error.get('step_id_pof')
StepIdPofOf(error) == IF "step_id_pof" \in DOMAIN error THEN error.step_id_pof ELSE None

RECURSIVE prioritize(_, _, _, _)
prioritize(unique_errors, failed_step_id, filtered_errors, same_step_count) ==
    IF unique_errors = <<>> \/ Len(filtered_errors) >= max_total THEN filtered_errors
    ELSE LET error == Head(unique_errors)
         IN IF StepIdPofOf(error) = failed_step_id
            THEN IF same_step_count < max_same_step
                 THEN prioritize(Tail(unique_errors), failed_step_id,
                                 Append(filtered_errors, error), same_step_count + 1)
                 ELSE prioritize(Tail(unique_errors), failed_step_id,
                                 filtered_errors, same_step_count)
            ELSE prioritize(Tail(unique_errors), failed_step_id,
                            Append(filtered_errors, error), same_step_count)

\* A prioritisation that fills the quotas from the lowest score upwards.
filter_and_prioritize_errors_Tail(unique_errors, failed_step_id) ==
    prioritize([i \in 1..Len(unique_errors) |->
                   unique_errors[Len(unique_errors) + 1 - i]],
               failed_step_id, <<>>, 0)

filter_and_prioritize_errors(unique_errors, failed_step_id) ==
    prioritize(unique_errors, failed_step_id, <<>>, 0)

\* The substrings that drop a fetched record, as phrases of words.
UnwantedSubstrings ==
    {<<"unknown">>, <<"idk">>, <<"i", "dont", "know">>, <<"not", "sure">>, <<"unsure">>}

HasUnwantedSubstring(dev_cause) ==
    \E substring \in UnwantedSubstrings : Contains(lower(dev_cause), substring)

\* get_resolved_errors_by_task_run_ids followed by the merge of task_name,
\* similarity_score and appearances into each fetched record.
fetched_error(store, error) ==
    [task_run_id |-> error.task_run_id,
     step_id_pof |-> store[error.task_run_id].step_id_pof,
     dev_cause |-> store[error.task_run_id].dev_cause,
     similarity_score |-> error.score,
     appearances |-> error.appearances]

\* hits: the documents of all field searches in visiting order.
search_similar_errors(hits, failed_step_id, absolute_threshold, relative_threshold, store) ==
    IF hits = <<>> THEN <<>>
    ELSE LET combined_results == combine_hits(<<>>, hits)
             sorted_results == SortByScore(<<>>, combined_results)
             max_score == sorted_results[1].score
             threshold_results ==
                 SelectSeq(sorted_results,
                           LAMBDA error : PassesThresholds(error, max_score,
                                                           absolute_threshold,
                                                           relative_threshold))
         IN IF threshold_results = <<>> THEN <<>>
            ELSE LET prioritized_errors ==
                         filter_and_prioritize_errors(threshold_results, failed_step_id)
                     full_error_details ==
                         [j \in 1..Len(prioritized_errors) |->
                             fetched_error(store, prioritized_errors[j])]
                     filtered_error_details ==
                         SelectSeq(full_error_details,
                                   LAMBDA error : ~HasUnwantedSubstring(error.dev_cause))
                     keyed == [j \in 1..Len(filtered_error_details) |->
                                 [score |-> filtered_error_details[j].similarity_score,
                                  error |-> filtered_error_details[j]]]
                     by_similarity == SortByScore(<<>>, keyed)
                 IN [j \in 1..Len(by_similarity) |-> by_similarity[j].error]

\* Inputs of the retrieval: up to MaxBulk records hit once by the dev_cause
\* search, and up to MaxProbes further hits on records 1 and 2.
FailedStep == "A"
ProbeFields == {"dev_cause_vector", "ai_context_vector", "type_pof_vector"}
EngineScores == {40, 80}
ProbeHits == [field : ProbeFields, task_run_id : {1, 2}, score : EngineScores]

\* Fields are visited in the order of vector_weights; one search returns a
\* record at most once.
InVisitingOrder(hits) ==
    \A i, j \in 1..Len(hits) :
        i < j => /\ FieldIndex(hits[i].field) <= FieldIndex(hits[j].field)
                 /\ ~(hits[i].field = hits[j].field
                      /\ hits[i].task_run_id = hits[j].task_run_id)

Probes == {q \in SeqsUpTo(ProbeHits, MaxProbes) : InVisitingOrder(q)}

BulkHits(n) ==
    [i \in 1..n |-> [field |-> "dev_cause_vector", task_run_id |-> 2 + i, score |-> 80]]

CleanCause == <<"the", "page", "loaded", "slowly">>
UnsureCause == <<"Not", "sure", "what", "happened">>

DetailStore(n, same1, unsure1, bulk_same) ==
    [id \in 1..(n + 2) |->
        [task_run_id |-> id,
         step_id_pof |-> IF (id = 1 /\ same1) \/ (id > 2 /\ bulk_same)
                         THEN FailedStep ELSE "other step",
         dev_cause |-> IF id = 1 /\ unsure1 THEN UnsureCause ELSE CleanCause]]

\* No bulk, one record, one more than the same-step quota, more than max_total.
BulkSizes == {0, 1, max_same_step + 1, MaxBulk}

SearchArgs ==
    {[fn |-> "search_similar_errors",
      hits |-> BulkHits(n) \o probes,
      failed_step_id |-> FailedStep,
      absolute_threshold |-> a,
      relative_threshold |-> r,
      store |-> DetailStore(n, same1, unsure1, bulk_same)] :
        n \in BulkSizes, probes \in Probes, a \in {0, 500}, r \in {0, 7},
        same1 \in BOOLEAN, unsure1 \in BOOLEAN, bulk_same \in BOOLEAN}

Search ==
    /\ args.fn = "search_similar_errors"
    /\ ret = NotReturned
    /\ ret' = [returned |-> TRUE,
               value |-> search_similar_errors(args.hits, args.failed_step_id,
                                               args.absolute_threshold,
                                               args.relative_threshold, args.store),
               combined_results |-> combine_hits(<<>>, args.hits)]
    /\ UNCHANGED <<trackerVars, logVars, args, invoker, pm>>

InitSearch ==
    /\ TrackerInit
    /\ log_entries = <<>>
    /\ pof = NotLocated
    /\ args \in SearchArgs
    /\ ret = NotReturned
    /\ invoker = InvokerIdle
    /\ pm = PipelineIdle

NextSearch == Search

SpecSearch == InitSearch /\ [][NextSearch]_vars

\* The loop over the search results one hit at a time: the hits one historical
\* record receives, through any fields in any order.
MaxHits == 3
FusionRecord == 1
FusionHits ==
    [field : {FieldOrder[i] : i \in 1..Len(FieldOrder)},
     task_run_id : {FusionRecord}, score : EngineScores]

\* One pass of the "async for doc in results" body.
VisitHit ==
    /\ args.fn = "combine_results"
    /\ Len(args.hits) < MaxHits
    /\ \E hit \in FusionHits :
          /\ args' = [args EXCEPT !.hits = Append(@, hit)]
          /\ ret' = [ret EXCEPT !.combined_results = combine_hit(@, hit)]
    /\ UNCHANGED <<trackerVars, logVars, invoker, pm>>

InitFusion ==
    /\ TrackerInit
    /\ log_entries = <<>>
    /\ pof = NotLocated
    /\ args = [fn |-> "combine_results", hits |-> <<>>]
    /\ ret = [returned |-> FALSE, combined_results |-> <<>>]
    /\ invoker = InvokerIdle
    /\ pm = PipelineIdle

NextFusion == VisitHit

SpecFusion == InitFusion /\ [][NextFusion]_vars

(***************************************************************************)
(* Part V: QualityFilter - is_valid_resolved_error (utils/fetch_data.py). *)
(***************************************************************************)
MaxCauseLen == 4
MaxSolutionLen == 3

MinCauseWords == 4
MinSolutionWords == 3
MinTimeSpent == 3

\* The phrases of invalid_phrases, word by word.
invalid_phrases ==
    {<<"i", "don't", "know", "what", "happened">>,
     <<"not", "sure", "what", "caused", "this">>,
     <<"unable", "to", "determine", "the", "cause">>,
     <<"couldn't", "figure", "out", "the", "reason">>,
     <<"no", "clear", "explanation", "for", "this">>,
     <<"the", "cause", "remains", "unknown">>,
     <<"don't", "have", "enough", "information">>,
     <<"this", "error", "is", "a", "mystery">>,
     <<"need", "more", "data", "to", "understand">>,
     <<"the", "root", "cause", "is", "unclear">>,
     <<"still", "investigating", "this", "issue">>,
     <<"this", "problem", "is", "not", "well", "understood">>,
     <<"have", "no", "idea", "why", "this", "happened">>,
     <<"the", "solution", "is", "not", "obvious">>,
     <<"unsure", "how", "to", "fix", "this">>,
     <<"no", "definitive", "solution", "found">>,
     <<"need", "to", "do", "more", "research">>,
     <<"this", "requires", "further", "investigation">>,
     <<"still", "looking", "into", "this">>,
     <<"no", "permanent", "fix", "has", "been", "identified">>,
     <<"this", "is", "an", "ongoing", "problem">>,
     <<"haven't", "found", "a", "reliable", "solution">>,
     <<"the", "fix", "is", "only", "temporary">>,
     <<"not", "sure", "if", "this", "will", "solve", "it">>,
     <<"this", "may", "or", "may", "not", "work">>,
     <<"try", "restarting", "and", "see", "what", "happens">>,
     <<"just", "restart", "the", "process", "and", "hope">>,
     <<"restarted", "without", "understanding", "why">>,
     <<"randomly", "started", "working", "again">>,
     <<"it", "fixed", "itself", "somehow">>,
     <<"the", "error", "disappeared", "on", "its", "own">>,
     <<"didn't", "do", "anything", "and", "it", "worked">>,
     <<"no", "changes", "made", "but", "it's", "working", "now">>,
     <<"cannot", "reproduce", "the", "error">>,
     <<"unable", "to", "replicate", "the", "issue">>,
     <<"the", "problem", "seems", "to", "have", "resolved", "itself">>,
     <<"don't", "understand", "why", "it's", "working", "now">>,
     <<"the", "cause", "is", "not", "clear", "at", "this", "time">>,
     <<"need", "more", "time", "to", "investigate">>,
     <<"the", "solution", "is", "unclear", "at", "this", "point">>,
     <<"not", "certain", "about", "the", "root", "cause">>}

\* resolved_error.get(key, default)
GetOr(resolved_error, key, default) ==
    IF key \in DOMAIN resolved_error THEN resolved_error[key] ELSE default

\* len(text.split()) for a text of words separated by blanks
WordCount(text) == Len(text)

\* any(phrase in cause or phrase in solution for phrase in invalid_phrases)
HasInvalidPhrase(cause, solution) ==
    \E phrase \in invalid_phrases : Contains(cause, phrase) \/ Contains(solution, phrase)

\* A length check that also turns away texts of exactly the minimum length.
TooShort_Strict(cause, solution) ==
    WordCount(cause) <= MinCauseWords \/ WordCount(solution) <= MinSolutionWords

\* "if len(cause.split()) < 4 or len(solution.split()) < 3: return False"
TooShort(cause, solution) ==
    WordCount(cause) < MinCauseWords \/ WordCount(solution) < MinSolutionWords

is_valid_resolved_error(resolved_error) ==
    IF DOMAIN resolved_error = {} THEN FALSE
    ELSE LET cause == lower(GetOr(resolved_error, "dev_cause", <<>>))
             solution == lower(GetOr(resolved_error, "dev_solution", <<>>))
         IN IF TooShort(cause, solution) THEN FALSE
            ELSE IF HasInvalidPhrase(cause, solution) THEN FALSE
            ELSE IF GetOr(resolved_error, "time_spent", 0) < MinTimeSpent THEN FALSE
            ELSE TRUE

\* Records offered to the filter: causes of up to MaxCauseLen words, among
\* them "still looking into this" in either case, and a clean 5-word cause;
\* solutions of up to MaxSolutionLen words, a clean 4-word solution and one
\* that holds an invalid phrase; any of the three keys may be missing.
CauseWords == {"still", "Still", "looking", "into", "this"}
SolutionWords == {"restart", "this"}
CauseTexts ==
    SeqsUpTo(CauseWords, MaxCauseLen)
    \cup {<<"the", "page", "loaded", "too", "slowly">>}
SolutionTexts ==
    SeqsUpTo(SolutionWords, MaxSolutionLen)
    \cup {<<"restarted", "the", "browser", "session">>,
          <<"The", "fix", "is", "only", "temporary">>}
TimesSpent == {0, 2, 3, 10}

ResolvedErrors ==
    [dev_cause : CauseTexts, dev_solution : SolutionTexts, time_spent : TimesSpent]
    \cup [dev_cause : CauseTexts, dev_solution : SolutionTexts]
    \cup [dev_solution : SolutionTexts, time_spent : TimesSpent]
    \cup [dev_cause : CauseTexts, time_spent : TimesSpent]
    \cup {[k \in {} |-> 0]}

QualityArgs == [fn : {"is_valid_resolved_error"}, resolved_error : ResolvedErrors]

Validate ==
    /\ args.fn = "is_valid_resolved_error"
    /\ ret = NotReturned
    /\ ret' = [returned |-> TRUE, value |-> is_valid_resolved_error(args.resolved_error)]
    /\ UNCHANGED <<trackerVars, logVars, args, invoker, pm>>

InitQuality ==
    /\ TrackerInit
    /\ log_entries = <<>>
    /\ pof = NotLocated
    /\ args \in QualityArgs
    /\ ret = NotReturned
    /\ invoker = InvokerIdle
    /\ pm = PipelineIdle

NextQuality == Validate

SpecQuality == InitQuality /\ [][NextQuality]_vars

(***************************************************************************)
(* Part VI: ResilientInvoker - vectorize_text and retry_request_openai     *)
(* (utils/ai_utils.py) and what their callers do with the outcome.         *)
(* The service fails the first fail_first calls of one invocation and      *)
(* answers the next one.                                                   *)
(***************************************************************************)
MaxFailures == 5

DefaultMaxRetries == 5
Helpers == {"vectorize_text", "retry_request_openai"}
ServiceErrors == {"APITimeoutError", "InternalServerError"}

\* The classes that inherit from BaseException; AzureOpenAI, the class named
\* in "except AzureOpenAI as e", is the client class and is not one of them.
ExceptionClasses == {"Exception", "TypeError", "APITimeoutError", "InternalServerError"}
HandlerClass == "AzureOpenAI"

\* An except clause that matches whatever class it names.
AllowedInExcept_Any(class) == TRUE

\* An except clause can only be matched against a class of exceptions.
\* Matching against any other class raises TypeError, with the exception
\* that was being handled as its context.
AllowedInExcept(class) == class \in ExceptionClasses

Content(helper) ==
    IF helper = "vectorize_text" THEN "embedding" ELSE "ai_generated_content"

\* ":warning: Error: OpenAI did not respond successfully ... Last error: ..."
ErrorMessage(error) == <<":warning: Error: OpenAI did not respond", error>>

Value(v) == [returned |-> TRUE, kind |-> "value", value |-> v]
Raised(error, context) ==
    [returned |-> TRUE, kind |-> "exception", error |-> error, context |-> context]
Retry == [returned |-> FALSE]

\* What the except clause does with an error raised by the call of the given
\* attempt (0-based): retry, raise, or return.
handle_failure(helper, attempt, max_retries, error) ==
    IF ~AllowedInExcept(HandlerClass) THEN Raised("TypeError", error)
    ELSE IF attempt = max_retries - 1
         THEN IF helper = "vectorize_text" THEN Raised(error, None)
              ELSE Value(ErrorMessage(error))
         ELSE Retry

\* One pass of "for attempt in range(max_retries)": the call and, when it
\* raises, the except clause with its sleep.
Attempt ==
    /\ invoker.pc = "loop"
    /\ invoker.attempt < invoker.max_retries
    /\ LET called == [invoker EXCEPT !.calls = @ + 1]
       IN IF invoker.calls >= invoker.fail_first
          THEN /\ invoker' = [called EXCEPT !.pc = "finished"]
               /\ ret' = Value(Content(invoker.helper))
          ELSE LET outcome == handle_failure(invoker.helper, invoker.attempt,
                                             invoker.max_retries, invoker.error)
               IN IF outcome = Retry
                  THEN /\ invoker' = [called EXCEPT !.attempt = @ + 1, !.waits = @ + 1]
                       /\ UNCHANGED ret
                  ELSE /\ invoker' = [called EXCEPT !.pc = "finished"]
                       /\ ret' = outcome
    /\ UNCHANGED <<trackerVars, logVars, args, pm>>

\* The caller got a value: summarize_ai_cause returns it and process_message
\* stores it in lookup_object; search_similar_errors puts the vector in its query.
PassOn ==
    /\ invoker.pc = "finished"
    /\ ret.kind = "value"
    /\ invoker' = [invoker EXCEPT !.pc = "passed_on", !.passed = ret.value]
    /\ UNCHANGED <<trackerVars, logVars, args, ret, pm>>

\* The caller got an exception: it leaves the callers up to process_message,
\* whose except branches send the error reply.
ReportError ==
    /\ invoker.pc = "finished"
    /\ ret.kind = "exception"
    /\ invoker' = [invoker EXCEPT !.pc = "reported"]
    /\ UNCHANGED <<trackerVars, logVars, args, ret, pm>>

Invocations ==
    [pc : {"loop"}, helper : Helpers, max_retries : 1..DefaultMaxRetries,
     attempt : {0}, calls : {0}, waits : {0}, fail_first : 0..MaxFailures,
     error : ServiceErrors, passed : {None}]

InitInvoker ==
    /\ TrackerInit
    /\ log_entries = <<>>
    /\ pof = NotLocated
    /\ invoker \in Invocations
    /\ args = [fn |-> invoker.helper]
    /\ ret = NotReturned
    /\ pm = PipelineIdle

NextInvoker == Attempt \/ PassOn \/ ReportError

SpecInvoker == InitInvoker /\ [][NextInvoker]_vars

(***************************************************************************)
(* Part VII: the error overviews - create_combined_error_overview          *)
(* (utils/fetch_data.py) on the same-step history get_uardi_context puts   *)
(* into the context and on the result of search_similar_errors.            *)
(***************************************************************************)
MaxHistorical == 32

max_historical_errors == 30
max_similar_errors_cap == 15

\* seq[:k] of Python, k of either sign.
Take(seq, k) ==
    IF k >= 0 THEN SubSeq(seq, 1, Min({k, Len(seq)}))
    ELSE SubSeq(seq, 1, Max({0, Len(seq) + k}))

\* create_resolved_error_overview: one block per record, in the order given,
\* under the title of its kind; a fixed sentence when there is no record.
create_resolved_error_overview(errors, error_type) ==
    [error_type |-> error_type, found |-> errors # <<>>, errors |-> errors]

create_combined_error_overview(historical_errors, similar_errors) ==
    LET historical_errors_count == Len(historical_errors)
        max_similar_errors ==
            Min({max_similar_errors_cap, max_historical_errors - historical_errors_count})
        final_historical_errors == Take(historical_errors, max_historical_errors)
        final_similar_errors == Take(similar_errors, max_similar_errors)
    IN [historical_error_overview |->
            create_resolved_error_overview(final_historical_errors, "historical"),
        similar_error_overview |->
            create_resolved_error_overview(final_similar_errors, "similar")]

\* What developers stored for earlier failures of the step: a usable record
\* and one that says nothing.
UsableRecord(id, resolved) ==
    [task_run_id |-> id, datetime_of_resolved |-> resolved,
     dev_cause |-> <<"the", "page", "loaded", "too", "slowly">>,
     dev_solution |-> <<"restarted", "the", "browser", "session">>,
     time_spent |-> 10]
UselessRecord(id, resolved) ==
    [task_run_id |-> id, datetime_of_resolved |-> resolved,
     dev_cause |-> <<"unknown">>, dev_solution |-> <<"restart">>, time_spent |-> 0]

\* ResolvedErrorWrapper.get_resolved_errors: every stored record of the step,
\* "ORDER BY c.datetime_of_resolved DESC"; every nth record is a useless one.
get_resolved_errors(count, nth) ==
    [i \in 1..count |->
        IF nth # 0 /\ i % nth = 0
        THEN UselessRecord(i, count - i)
        ELSE UsableRecord(i, count - i)]

\* The result of search_similar_errors: at most max_total records.
SimilarErrors(count) == [i \in 1..count |-> UsableRecord(100 + i, i)]

OverviewArgs ==
    {[fn |-> "create_combined_error_overview",
      uardi_context |-> [resolved_errors |-> get_resolved_errors(n, nth)],
      similar_errors |-> SimilarErrors(m)] :
        n \in 0..MaxHistorical, nth \in 0..2, m \in 0..max_total}

\* process_message: "historical_resolved_errors = uardi_context.get(
\* 'resolved_errors', [])" and the call of create_combined_error_overview.
CombineOverviews ==
    /\ args.fn = "create_combined_error_overview"
    /\ ret = NotReturned
    /\ LET historical_resolved_errors == args.uardi_context.resolved_errors
       IN ret' = [returned |-> TRUE,
                  value |-> create_combined_error_overview(historical_resolved_errors,
                                                           args.similar_errors)]
    /\ UNCHANGED <<trackerVars, logVars, args, invoker, pm>>

InitOverview ==
    /\ TrackerInit
    /\ log_entries = <<>>
    /\ pof = NotLocated
    /\ args \in OverviewArgs
    /\ ret = NotReturned
    /\ invoker = InvokerIdle
    /\ pm = PipelineIdle

NextOverview == CombineOverviews

SpecOverview == InitOverview /\ [][NextOverview]_vars

(***************************************************************************)
(* Part VIII: process_message from the fetch of the message to the data    *)
(* sent to the stores (slack_integration/event_handler.py), with           *)
(* retry_block_assembly, retry_sending_message and send_message            *)
(* (slack_integration/message_handler.py).  Every stage may fail the way   *)
(* its code can; pm.replies are the messages in the thread of the          *)
(* originating message, pm.logged the lines written to the log.            *)
(***************************************************************************)
PrimaryModel == "gpt-4o-2024-08-06"
FallbackModel == "gpt-4o-2024-08-06"
BlockMaxRetries == 3

\* The threshold pairs of the two calls of search_similar_errors, in tenths.
ThresholdsBeforeCause == [absolute_threshold |-> 5, relative_threshold |-> 7]
ThresholdsAfterCause == [absolute_threshold |-> 5, relative_threshold |-> 7]

StructuralErrors == {"JSONDecodeError", "KeyError", "TypeError", "ValueError"}

\* The exceptions the stages between the initial reply and the final stage
\* can raise.
StageFaults(stage) ==
    CASE stage = "fetch_data" -> {"ValueError"}
      [] stage = "analyze_logs" -> {"ValueError"}
      [] stage = "context_generation" -> {"ValueError", "Exception"}
      [] OTHER -> {"TypeError"}

NextStage(stage) ==
    CASE stage = "fetch_data" -> "analyze_logs"
      [] stage = "analyze_logs" -> "context_generation"
      [] stage = "context_generation" -> "search_before_cause"
      [] stage = "search_before_cause" -> "error_description"
      [] stage = "error_description" -> "cause_analysis"
      [] stage = "cause_analysis" -> "summarize_ai_cause"
      [] stage = "summarize_ai_cause" -> "search_after_cause"
      [] stage = "search_after_cause" -> "solution_generation"
      [] stage = "solution_generation" -> "combine_and_refine_analysis"

\* The text of the reply each except branch of process_message sends.
ErrorText(exception) ==
    CASE exception = "ValueError" -> "Invalid data format"
      [] exception = "RequestException" -> "external services"
      [] exception = "OpenAIError" -> "AI service"
      [] exception = "SlackApiError" -> "Slack"
      [] OTHER -> "unexpected error"

Log(p, line) == [p EXCEPT !.logged = Append(@, line)]
Called(p, fn) == [p EXCEPT !.calls = Append(@, fn)]

\* client.chat_postMessage(channel=channel, ..., thread_ts=thread_ts)
Post(p, text) ==
    [p EXCEPT !.replies = Append(@, [channel |-> BaseEvent.channel,
                                     thread_ts |-> BaseEvent.ts, text |-> text])]

\* send_error_message: send_message as text; a Slack failure is logged.
send_error_message(p, text, slack_ok) ==
    IF slack_ok THEN Post(p, text) ELSE Log(p, "Error sending message")

\* The except branches of process_message.
handle_exception(p, exception, slack_ok) ==
    send_error_message(Log([p EXCEPT !.pc = "done"], exception),
                       ErrorText(exception), slack_ok)

\* "except Exception as e: logging.error(f'Error during final analysis: {e}')"
final_analysis_failed(p) ==
    Log([p EXCEPT !.pc = "send_data"], "Error during final analysis")

\* fetch_message returns None on a Slack error and process_message raises.
FetchMessage ==
    /\ pm.pc = "fetch_message"
    /\ \E fetched, slack_ok \in BOOLEAN :
          pm' = IF fetched THEN Called([pm EXCEPT !.pc = "extract"], "fetch_message")
                ELSE handle_exception(Called(pm, "fetch_message"), "ValueError", slack_ok)
    /\ UNCHANGED <<trackerVars, logVars, args, ret, invoker>>

\* extract_data_from_message and the two early returns.
ExtractData ==
    /\ pm.pc = "extract"
    /\ \E found \in {"all", "missing", "manual_run"}, slack_ok \in BOOLEAN :
          pm' = IF found = "all" THEN [pm EXCEPT !.pc = "initial"]
                ELSE send_error_message([pm EXCEPT !.pc = "done"],
                                        IF found = "missing"
                                        THEN "unable to extract"
                                        ELSE "manual run", slack_ok)
    /\ UNCHANGED <<trackerVars, logVars, args, ret, invoker>>

\* The initial reply; send_message returns None when Slack refuses it and
\* initial_response['ts'] raises TypeError.
SendInitial ==
    /\ pm.pc = "initial"
    /\ \E sent, slack_ok \in BOOLEAN :
          pm' = IF sent
                THEN Post([pm EXCEPT !.pc = "fetch_data", !.progress = TRUE], "initial")
                ELSE handle_exception(Log(pm, "Error sending message"),
                                      "TypeError", slack_ok)
    /\ UNCHANGED <<trackerVars, logVars, args, ret, invoker>>

\* A stage that either returns or raises.
RunStage ==
    /\ pm.pc \in {"fetch_data", "analyze_logs", "context_generation",
                  "error_description", "cause_analysis"}
    /\ \/ pm' = Called([pm EXCEPT !.pc = NextStage(pm.pc)], pm.pc)
       \/ \E exception \in StageFaults(pm.pc), slack_ok \in BOOLEAN :
             pm' = handle_exception(Called(pm, pm.pc), exception, slack_ok)
    /\ UNCHANGED <<trackerVars, logVars, args, ret, invoker>>

\* One call of search_similar_errors with the lookup object as it is, and the
\* overview built from its result.
search_call(p, thresholds) ==
    [p EXCEPT !.searches =
                 Append(@, [absolute_threshold |-> thresholds.absolute_threshold,
                            relative_threshold |-> thresholds.relative_threshold,
                            dev_cause |-> p.lookup_object.dev_cause,
                            dev_cause_enriched |-> p.lookup_object.dev_cause_enriched,
                            calls_before |-> p.calls]),
              !.similar_error_overview = Len(p.searches) + 1]

SearchSimilar ==
    /\ pm.pc \in {"search_before_cause", "search_after_cause"}
    /\ LET thresholds == IF pm.pc = "search_before_cause"
                         THEN ThresholdsBeforeCause ELSE ThresholdsAfterCause
           searched == Called(search_call(pm, thresholds), "search_similar_errors")
       IN \/ pm' = [searched EXCEPT !.pc = NextStage(pm.pc)]
          \/ \E slack_ok \in BOOLEAN :
                pm' = handle_exception(Called(pm, "search_similar_errors"),
                                       "TypeError", slack_ok)
    /\ UNCHANGED <<trackerVars, logVars, args, ret, invoker>>

\* summarize_ai_cause and the two assignments to lookup_object.
SummarizeCause ==
    /\ pm.pc = "summarize_ai_cause"
    /\ \/ pm' = Called([pm EXCEPT !.pc = NextStage(pm.pc),
                                  !.lookup_object =
                                      [dev_cause |-> "human_like_ai_cause",
                                       dev_cause_enriched |-> "human_like_ai_cause"]],
                       "summarize_ai_cause")
       \/ \E slack_ok \in BOOLEAN :
             pm' = handle_exception(Called(pm, "summarize_ai_cause"), "TypeError", slack_ok)
    /\ UNCHANGED <<trackerVars, logVars, args, ret, invoker>>

\* generate_restart_information_and_solution with the overview current then.
GenerateSolution ==
    /\ pm.pc = "solution_generation"
    /\ \/ pm' = Called([pm EXCEPT !.pc = NextStage(pm.pc),
                                  !.solution_from = pm.similar_error_overview],
                       "solution_generation")
       \/ \E slack_ok \in BOOLEAN :
             pm' = handle_exception(Called(pm, "solution_generation"), "TypeError", slack_ok)
    /\ UNCHANGED <<trackerVars, logVars, args, ret, invoker>>

\* combine_and_refine_analysis, the first call inside the inner try.
CombineAndRefine ==
    /\ pm.pc = "combine_and_refine_analysis"
    /\ \/ pm' = Called([pm EXCEPT !.pc = "format", !.model = PrimaryModel],
                       "combine_and_refine_analysis")
       \/ pm' = final_analysis_failed(Called(pm, "combine_and_refine_analysis"))
    /\ UNCHANGED <<trackerVars, logVars, args, ret, invoker>>

\* One iteration of the loop of retry_block_assembly.
FormatAttempt ==
    /\ pm.pc = "format"
    /\ LET tried == [pm EXCEPT !.attempt = @ + 1, !.models = Append(@, pm.model)]
       IN \/ pm' = [tried EXCEPT !.pc = "send", !.summary_content = "summary"]
          \/ \E error \in StructuralErrors :
                LET failed == [Log(tried, "Block assembly failed")
                                 EXCEPT !.model = FallbackModel]
                IN pm' = IF tried.attempt = BlockMaxRetries
                         THEN final_analysis_failed(failed)
                         ELSE failed
    /\ UNCHANGED <<trackerVars, logVars, args, ret, invoker>>

\* retry_sending_message: send_message posts the blocks; on invalid_blocks it
\* posts the apology with the summary; it swallows every Slack error and
\* returns, so the first attempt always counts as sent.
SendAnalysis ==
    /\ pm.pc = "send"
    /\ \E outcome \in {"ok", "invalid_blocks", "other_error"}, slack_ok \in BOOLEAN :
          LET sent == [pm EXCEPT !.pc = "delete_progress"]
          IN pm' = IF outcome = "ok" THEN Post(sent, "analysis")
                   ELSE IF outcome = "invalid_blocks"
                   THEN IF slack_ok
                        THEN Post(Log(sent, "Error sending message"), "apology and summary")
                        ELSE Log(Log(sent, "Error sending message"),
                                 "Error sending fallback message")
                   ELSE Log(sent, "Error sending message")
    /\ UNCHANGED <<trackerVars, logVars, args, ret, invoker>>

\* slack_client.chat_delete of the progress message, still inside the try.
DeleteProgress ==
    /\ pm.pc = "delete_progress"
    /\ \/ pm' = [pm EXCEPT !.pc = "send_data", !.progress = FALSE]
       \/ pm' = final_analysis_failed(pm)
    /\ UNCHANGED <<trackerVars, logVars, args, ret, invoker>>

\* The data sent to the stores in production, with its own error reply.
SendData ==
    /\ pm.pc = "send_data"
    /\ \/ pm' = [pm EXCEPT !.pc = "done"]
       \/ /\ pm.environment = "production"
          /\ \E slack_ok \in BOOLEAN :
                pm' = send_error_message(
                          Log([pm EXCEPT !.pc = "done"], "Failed to send data"),
                          "Failed to update external systems", slack_ok)
    /\ UNCHANGED <<trackerVars, logVars, args, ret, invoker>>

Pipelines ==
    [pc : {"fetch_message"}, environment : {"production", "development"},
     calls : {<<>>}, replies : {<<>>}, logged : {<<>>}, progress : {FALSE},
     attempt : {0}, model : {None}, models : {<<>>}, summary_content : {None},
     lookup_object : {[dev_cause |-> None, dev_cause_enriched |-> None]},
     searches : {<<>>}, similar_error_overview : {0}, solution_from : {0}]

InitPipeline ==
    /\ TrackerInit
    /\ log_entries = <<>>
    /\ pof = NotLocated
    /\ args = [fn |-> "process_message"]
    /\ ret = NotReturned
    /\ invoker = InvokerIdle
    /\ pm \in Pipelines

NextPipeline ==
    \/ FetchMessage \/ ExtractData \/ SendInitial \/ RunStage \/ SearchSimilar
    \/ SummarizeCause \/ GenerateSolution \/ CombineAndRefine \/ FormatAttempt
    \/ SendAnalysis \/ DeleteProgress \/ SendData

SpecPipeline == InitPipeline /\ [][NextPipeline]_vars

(***************************************************************************)
(* Claims about the EventStateTracker                                      *)
(***************************************************************************)
Active(h) == h_pc[h] # "idle"
Abs(x) == IF x < 0 THEN -x ELSE x

\* The state a reaction on key k would read: message_states.get(k, default).
StateOf(k) == GetState(message_states, k)

\* The step is the trailing sweep of handle_event (lines 233-235).
SweepKinds == {"unhandled", "added", "removed", "finished"}

\* C1: two reaction_added events from two different users for the same
\* (channel, ts), both within the 5-minute cooldown, never give two executions
\* of process_message: no two pipelines for one key, started by different users
\* no more than Cooldown apart, exist together.
C1_ExactlyOnce ==
    \A h1, h2 \in Handlers :
        (h1 # h2 /\ Active(h1) /\ Active(h2) /\ h_key[h1] = h_key[h2]
            /\ h_user[h1] # h_user[h2])
        => Abs(h_start[h1] - h_start[h2]) > Cooldown

\* C2: on every exit path of process_message (return, handled error, escaping
\* exception) the key's state ends with processing = FALSE and last_processed =
\* the completion time, stored in message_states and written to the file.
C2_FlagClearedOnExit ==
    [][\A h \in Handlers :
          (h_pc[h] = "running" /\ h_pc'[h] = "idle")
          => LET k == h_key[h]
             IN /\ k \in DOMAIN message_states'
                /\ ~message_states'[k].processing
                /\ message_states'[k].last_processed = now'
                /\ message_states'[k].user_reactions = h_state[h].user_reactions
                /\ persisted' = save_message_states(message_states')
                /\ load_message_states(persisted')[k] = message_states'[k]]_vars

\* C2 witness: an exception escaped process_message and the flag is cleared.
C2_Witness ==
    /\ last.kind = "escaped"
    /\ last.key \in DOMAIN message_states
    /\ ~message_states[last.key].processing
    /\ message_states[last.key].last_processed = now

\* C3: a state with processing = TRUE for a key is eventually followed by a
\* state with processing = FALSE for that key, also when the pipeline never
\* finishes or the process restarts.
C3_FlagEventuallyCleared ==
    \A k \in Keys : StateOf(k).processing ~> ~StateOf(k).processing

\* C4: a reaction_added event starts the pipeline iff the user is not yet in
\* user_reactions, processing is false and more than 5 minutes passed since
\* last_processed; hence a pipeline for a key never starts before the previous
\* one for that key has ended (and the cooldown after it has passed).
C4_StartIffAndSeparated ==
    [][LET k == last'.key
           st == StateOf(k)
           gate == ~st.processing /\ (now - st.last_processed) > Cooldown
       IN /\ last'.kind = "started"
             => /\ gate
                /\ \E h \in Handlers : /\ ~Active(h)
                                       /\ h_pc'[h] = "running"
                                       /\ h_user'[h] \notin st.user_reactions
                /\ \A h \in Handlers : ~(Active(h) /\ h_key[h] = k)
          /\ last'.kind = "added" => ~gate]_vars

\* C5: a reaction_added event from a user already in the key's user_reactions
\* starts no pipeline and leaves message_states and the file unchanged.
C5_DuplicateIgnored ==
    [][\A e \in ReactionEvents :
          (/\ e.type = "reaction_added"
           /\ e.user \in StateOf(StateKey(e)).user_reactions
           /\ HandleEvent(e))
          => /\ UNCHANGED <<message_states, persisted, h_pc, h_key, h_state,
                            h_alias, h_user, h_start>>
             /\ ~last'.saved
             /\ last'.kind = "duplicate"]_vars

\* C5 witness: a user who is in user_reactions reacted again.
C5_Witness ==
    /\ last.kind = "duplicate"
    /\ last.key \in DOMAIN message_states
    /\ message_states[last.key].user_reactions # {}

\* An event handle_event rejects: invalid, unsupported, sent by the bot, in a
\* channel or with a reaction outside the allow-lists.
IsRejected(e) ==
    \/ ~validate_slack_event(e)
    \/ e.user = bot_user_id
    \/ e.channel \notin allowed_channels
    \/ e.reaction \notin valid_reactions

\* C6: a rejected ingress event mutates no message state (no key added, changed
\* or evicted), changes nothing in the persisted state and starts no pipeline.
C6_RejectedNoEffect ==
    [][\A e \in Events :
          (IsRejected(e) /\ HandleEvent(e))
          => UNCHANGED <<message_states, persisted, h_pc>>]_vars

\* C7 (as amended): the sweep removes exactly the keys whose last_processed is
\* 3 days or more before the sweep time and keeps every other key unchanged;
\* after it no key is 3 days old or older.
C7_SweepRemovesExpired ==
    [][last'.kind \in SweepKinds
       => /\ \A r \in last'.evicted : now - r.last_processed >= Retention
          /\ \A k \in DOMAIN message_states' :
                now - message_states'[k].last_processed < Retention
          /\ \A k \in DOMAIN message_states \ {last'.key} :
                IF now - message_states[k].last_processed >= Retention
                THEN k \notin DOMAIN message_states'
                ELSE /\ k \in DOMAIN message_states'
                     /\ message_states'[k] = message_states[k]]_vars

\* C7 witness: a sweep evicted a key that was exactly 3 days old and kept another.
C7_Witness ==
    /\ last.kind \in SweepKinds
    /\ \E r \in last.evicted : now - r.last_processed = Retention
    /\ message_states # EmptyStates

\* C7 (as claimed): the sweep removes exactly the keys whose last_processed is
\* more than 3 days before the sweep time and keeps every other key unchanged.
C7_SweepRemovesOlderThan ==
    [][last'.kind \in SweepKinds
       => /\ \A r \in last'.evicted : now - r.last_processed > Retention
          /\ \A k \in DOMAIN message_states' :
                now - message_states'[k].last_processed <= Retention
          /\ \A k \in DOMAIN message_states \ {last'.key} :
                IF now - message_states[k].last_processed > Retention
                THEN k \notin DOMAIN message_states'
                ELSE /\ k \in DOMAIN message_states'
                     /\ message_states'[k] = message_states[k]]_vars

(***************************************************************************)
(* Claims about the FailureLocator                                         *)
(***************************************************************************)
TaskFailedAt(log) == {i \in 1..Len(log) : log[i].eventType = "TASK_FAILED"}

\* Index of the nearest STEP_COMPLETED before index tf, 0 when there is none.
BoundaryBefore(log, tf) ==
    LET done == {i \in 1..(tf - 1) : log[i].eventType = "STEP_COMPLETED"}
    IN IF done = {} THEN 0 ELSE CHOOSE i \in done : \A j \in done : j <= i

\* Exactly one TASK_FAILED and at least one STEP_COMPLETED before it.
HasBoundary(log) ==
    /\ Cardinality(TaskFailedAt(log)) = 1
    /\ BoundaryBefore(log, CHOOSE i \in TaskFailedAt(log) : TRUE) # 0

TheTaskFailed(log) == CHOOSE i \in TaskFailedAt(log) : TRUE
TheBoundary(log) == BoundaryBefore(log, TheTaskFailed(log))

\* Indices of the STEP_FAILED events strictly between the boundary and TASK_FAILED.
FailedAfterBoundary(log) ==
    {i \in (TheBoundary(log) + 1)..(TheTaskFailed(log) - 1) :
        log[i].eventType = "STEP_FAILED"}

FirstFailedAfterBoundary(log) ==
    CHOOSE i \in FailedAfterBoundary(log) : \A j \in FailedAfterBoundary(log) : i <= j

\* C8 (as claimed): for every log with exactly one TASK_FAILED and a
\* STEP_COMPLETED before it, the failedStepId returned is the stepUuid of an
\* event at or after the boundary STEP_COMPLETED and at or before TASK_FAILED.
C8_FailedStepAlwaysLocated ==
    (pof.done /\ HasBoundary(log_entries))
    => /\ pof.located.failed_step_id # None
       /\ \E i \in TheBoundary(log_entries)..TheTaskFailed(log_entries) :
             log_entries[i].stepUuid = pof.located.failed_step_id

\* C8 (as amended): for such a log the failedStepId returned is the stepUuid
\* of the first STEP_FAILED after the boundary when one lies before
\* TASK_FAILED, the boundary's own stepUuid when TASK_FAILED directly follows
\* the boundary, and None otherwise; when it is not None it is the stepUuid of
\* an event at or after the boundary and before TASK_FAILED.
C8_FailedStepWithinWindow ==
    (pof.done /\ HasBoundary(log_entries))
    => LET f == pof.located.failed_step_id
           lc == TheBoundary(log_entries)
           tf == TheTaskFailed(log_entries)
       IN /\ IF tf = lc + 1 THEN f = log_entries[lc].stepUuid
             ELSE IF FailedAfterBoundary(log_entries) # {}
             THEN f = log_entries[FirstFailedAfterBoundary(log_entries)].stepUuid
             ELSE f = None
          /\ f # None => \E i \in lc..(tf - 1) : log_entries[i].stepUuid = f

\* C8 witness: a STEP_FAILED that is not the first event after the boundary
\* and not the last STEP_FAILED before TASK_FAILED was located.
C8_Witness ==
    /\ pof.done
    /\ HasBoundary(log_entries)
    /\ Cardinality(FailedAfterBoundary(log_entries)) = 2
    /\ \A i \in FailedAfterBoundary(log_entries) : log_entries[i].stepUuid # None
    /\ \E i, j \in FailedAfterBoundary(log_entries) :
          log_entries[i].stepUuid # log_entries[j].stepUuid
    /\ pof.located.failed_step_id
          = log_entries[FirstFailedAfterBoundary(log_entries)].stepUuid

\* The log `log` with entry x inserted after position i.
InsertAfter(log, i, x) == SubSeq(log, 1, i) \o <<x>> \o SubSeq(log, i + 1, Len(log))

LastIndexOf(log, id) ==
    LET at == {i \in 1..Len(log) : log[i].stepUuid = id}
    IN CHOOSE i \in at : \A j \in at : j <= i

\* C10: stepsBetweenCatchAndFailure is 0 when the catch-trigger id or the
\* failed-step id is absent, or when the last occurrence of the catch-trigger
\* id is at or after the last occurrence of the failed-step id; otherwise it
\* is the number of events carrying a stepUuid strictly between those two last
\* occurrences; it is never negative.
C10_StepsBetween ==
    pof.done
    => LET log == log_entries
           c == pof.located.catch_error_step_id
           f == pof.located.failed_step_id
           n == pof.located.steps_between
       IN /\ n >= 0
          /\ IF c = None \/ f = None THEN n = 0
             ELSE LET ci == LastIndexOf(log, c)
                      fi == LastIndexOf(log, f)
                  IN IF ci >= fi THEN n = 0
                     ELSE n = Cardinality({i \in 1..Len(log) :
                                              ci < i /\ i < fi /\ log[i].stepUuid # None})

\* C10 witness: a step-bearing event lies between the last occurrence of the
\* catch trigger and the last occurrence of the failed step.
C10_Witness ==
    /\ pof.done
    /\ pof.located.catch_error_step_id # None
    /\ pof.located.failed_step_id # None
    /\ pof.located.steps_between >= 1

(***************************************************************************)
(* Claims about the analyze_logs stage and the WindowBuilder               *)
(***************************************************************************)
HasTaskFailed == \E i \in 1..Len(log_entries) : log_entries[i].eventType = "TASK_FAILED"

Window == ret.value
RegularEntries == {j \in 1..Len(Window) : Window[j].origin \in RegularTypes}
StartIndex == failed_step_index(log_entries, args.failed_step_id)
\* The identities of the collected events at or before the start position.
IdentitiesBeforeStart ==
    {step_identity(log_entries[i]) :
        i \in {x \in 1..StartIndex : log_entries[x].eventType \in CollectedTypes}}
WindowIdentities == {step_identity(log_entries[Window[j].step]) : j \in 1..Len(Window)}

\* C12: the window holds at most steps_to_include entries that come from
\* STEP_COMPLETED or STEP_FAILED events; entries from SUBTASK_* and TASK_FAILED
\* events use none of the budget: while fewer than steps_to_include regular
\* entries were collected the walk went on to the start of the log.
C12_BudgetRespected ==
    ret # NotReturned
    => /\ Cardinality(RegularEntries) <= args.steps_to_include
       /\ (Cardinality(RegularEntries) < args.steps_to_include
            => WindowIdentities = IdentitiesBeforeStart)

\* C12 witness: the window is larger than the budget, which the regular
\* entries fill exactly.
C12_Witness ==
    /\ ret # NotReturned
    /\ Cardinality(RegularEntries) = args.steps_to_include
    /\ Len(Window) > args.steps_to_include

Occurs(id) == \E i \in 1..Len(log_entries) : log_entries[i].stepUuid = id

\* C13: when failed_step_id occurs as a stepUuid in the log the window is
\* non-empty, in chronological order, and ends with the entry of the failed
\* step; when it does not occur the window is empty.
C13_EndsWithFailedStep ==
    ret # NotReturned
    => IF Occurs(args.failed_step_id)
       THEN /\ Window # <<>>
            /\ \A j \in 1..(Len(Window) - 1) : Window[j].step < Window[j + 1].step
            /\ Window[Len(Window)].stepUuid = args.failed_step_id
       ELSE Window = <<>>

CollectedOccurrences(u) ==
    {i \in 1..Len(log_entries) :
        log_entries[i].stepUuid = u /\ log_entries[i].eventType \in CollectedTypes}

\* C14: a stepUuid that occurs M times in the log among the collected event
\* types has exactly one window entry, whose retry count is M, with the first
\* attempt taken from the earliest and the last attempt from the latest
\* occurrence.
C14_RetryMerged ==
    ret # NotReturned
    => \A j \in 1..Len(Window) :
          Window[j].stepUuid # None
          => LET occ == CollectedOccurrences(Window[j].stepUuid)
             IN /\ \A x \in 1..Len(Window) :
                      Window[x].stepUuid = Window[j].stepUuid => x = j
                /\ Window[j].retry.count = Cardinality(occ)
                /\ Cardinality(occ) > 1
                     => /\ Window[j].retry.first_attempt = Min(occ)
                        /\ Window[j].retry.last_attempt = Max(occ)

(***************************************************************************)
(* Claims about the EvidenceRetriever                                      *)
(***************************************************************************)
\* The positions in the visiting order of the hits on record id.
HitsOn(id) == {i \in 1..Len(args.hits) : args.hits[i].task_run_id = id}
LowHit(id) == Min({weighted_score(args.hits[i]) : i \in HitsOn(id)})
HighHit(id) == Max({weighted_score(args.hits[i]) : i \in HitsOn(id)})
TwiceHit ==
    {j \in 1..Len(ret.combined_results) :
        Cardinality(HitsOn(ret.combined_results[j].task_run_id)) = 2}

ResultIds(result) == {result[j].task_run_id : j \in 1..Len(result)}
WithoutAbsolute ==
    search_similar_errors(args.hits, args.failed_step_id, 0,
                          args.relative_threshold, args.store)
WithoutRelative ==
    search_similar_errors(args.hits, args.failed_step_id, args.absolute_threshold,
                          0, args.store)

\* C16: the records returned with thresholds (absolute, relative) are among
\* those returned with the absolute threshold set to 0 and among those
\* returned with the relative threshold set to 0, in the final result after
\* the diversity cap and the denylist filter.
C16_ThresholdMonotone ==
    ret # NotReturned
    => /\ ResultIds(ret.value) \subseteq ResultIds(WithoutAbsolute)
       /\ ResultIds(ret.value) \subseteq ResultIds(WithoutRelative)

\* C16 witness: both thresholds are set, some record is returned, and removing
\* the absolute threshold returns a record that the thresholds held back.
C16_Witness ==
    /\ ret # NotReturned
    /\ args.absolute_threshold > 0
    /\ args.relative_threshold > 0
    /\ ret.value # <<>>
    /\ ResultIds(ret.value) # ResultIds(WithoutAbsolute)

SameStepAdmitted ==
    {j \in 1..Len(ret.value) : ret.value[j].step_id_pof = args.failed_step_id}

\* C17: at most max_same_step returned records have step_id_pof equal to the
\* queried failed_step_id and at most max_total records are returned.
C17_SameStepQuota ==
    ret # NotReturned
    => /\ Cardinality(SameStepAdmitted) <= max_same_step
       /\ Len(ret.value) <= max_total

(***************************************************************************)
(* Claims about the QualityFilter                                          *)
(***************************************************************************)
CauseOf(e) == IF "dev_cause" \in DOMAIN e THEN e.dev_cause ELSE <<>>
SolutionOf(e) == IF "dev_solution" \in DOMAIN e THEN e.dev_solution ELSE <<>>
TimeOf(e) == IF "time_spent" \in DOMAIN e THEN e.time_spent ELSE 0

\* The text holds a denylisted phrase, whatever the case of its words.
Mentions(text) ==
    \E phrase \in invalid_phrases :
        \E i \in 1..Len(text) :
            /\ i + Len(phrase) - 1 <= Len(text)
            /\ \A k \in 1..Len(phrase) : LowerWord(text[i + k - 1]) = phrase[k]

\* C18: is_valid_resolved_error accepts a record iff its cause has at least 4
\* words, its solution at least 3 words, neither holds a denylisted phrase in
\* any case, and its time spent (0 when missing) is at least 3 minutes; a
\* 1-word cause with a 1-word solution is rejected, a clean 5-word cause with a
\* clean 4-word solution and 10 minutes is accepted.
C18_AcceptsIff ==
    ret # NotReturned
    => LET e == args.resolved_error
       IN /\ ret.value <=> /\ Len(CauseOf(e)) >= 4
                           /\ Len(SolutionOf(e)) >= 3
                           /\ ~Mentions(CauseOf(e))
                           /\ ~Mentions(SolutionOf(e))
                           /\ TimeOf(e) >= 3
          /\ (Len(CauseOf(e)) = 1 /\ Len(SolutionOf(e)) = 1) => ~ret.value
          /\ (/\ Len(CauseOf(e)) = 5 /\ Len(SolutionOf(e)) = 4
              /\ ~Mentions(CauseOf(e)) /\ ~Mentions(SolutionOf(e))
              /\ TimeOf(e) = 10) => ret.value

\* C18 witness: a 4-word cause with a 3-word solution and 3 minutes was
\* accepted.
C18_Witness ==
    /\ ret # NotReturned
    /\ ret.value
    /\ Len(CauseOf(args.resolved_error)) = 4
    /\ Len(SolutionOf(args.resolved_error)) = 3
    /\ TimeOf(args.resolved_error) = 3

(***************************************************************************)
(* Claims about the ResilientInvoker                                       *)
(***************************************************************************)
InvocationOver == invoker.pc \in {"finished", "passed_on", "reported"}

\* C19: when the call fails k times with k < max_retries and then succeeds,
\* the helper retries after each failure and returns the successful result
\* after k + 1 attempts; it never makes more than max_retries attempts.
C19_RetriesUntilSuccess ==
    /\ invoker.pc # "idle" => invoker.calls <= invoker.max_retries
    /\ (InvocationOver /\ invoker.fail_first < invoker.max_retries)
       => /\ ret.kind = "value"
          /\ ret.value = Content(invoker.helper)
          /\ invoker.calls = invoker.fail_first + 1

FirstOccurrence ==
    CHOOSE i \in 1..Len(log_entries) :
        /\ log_entries[i].stepUuid = args.failed_step_id
        /\ \A j \in 1..(i - 1) : log_entries[j].stepUuid # args.failed_step_id
LaterOccurrences ==
    {i \in 1..Len(log_entries) :
        i > FirstOccurrence /\ log_entries[i].stepUuid = args.failed_step_id}

\* C29: the window is anchored at the first log position whose stepUuid equals
\* failed_step_id: every entry, retry count and first/last attempt comes from
\* events at or before that position, and the window is the one the same call
\* builds from the log cut off after that position, so later occurrences of
\* the same stepUuid contribute nothing.
C29_AnchoredAtFirstOccurrence ==
    (ret # NotReturned /\ Occurs(args.failed_step_id))
    => /\ \A j \in 1..Len(Window) :
             /\ Window[j].step <= FirstOccurrence
             /\ Window[j].retry # NoRetry
                  => /\ Window[j].retry.first_attempt <= FirstOccurrence
                     /\ Window[j].retry.last_attempt <= FirstOccurrence
                     /\ Window[j].retry.count
                          = Cardinality({i \in 1..FirstOccurrence :
                                step_identity(log_entries[i])
                                  = step_identity(log_entries[Window[j].step])
                                /\ log_entries[i].eventType \in CollectedTypes
                                /\ i >= Window[j].retry.first_attempt})
       /\ Window = load_log_preceding_steps(SubSeq(log_entries, 1, FirstOccurrence),
                                            args.failed_step_id,
                                            args.catch_error_step_id,
                                            args.steps_to_include)

\* C29 witness: the failed step id occurs first as a STEP_COMPLETED and later
\* as the STEP_FAILED of a further iteration, and the window was built.
C29_Witness ==
    /\ ret # NotReturned
    /\ Occurs(args.failed_step_id)
    /\ log_entries[FirstOccurrence].eventType = "STEP_COMPLETED"
    /\ \E i \in LaterOccurrences : log_entries[i].eventType = "STEP_FAILED"
    /\ Window # <<>>

(***************************************************************************)
(* Claims about the catch-trigger entry of the window                      *)
(***************************************************************************)
SentinelEntries == {j \in 1..Len(Window) : Window[j].eventType = CatchSentinel}

\* C25: no entry of the window carries its raw event type, except that the
\* entry whose stepUuid equals catch_error_step_id carries the sentinel label;
\* at most one entry carries the sentinel; and both consumers that split the
\* steps log on the catch trigger, generate_error_context and
\* perform_cause_analysis, find that entry and split the log there.
C25_SentinelOnlyAndShared ==
    ret # NotReturned
    => /\ \A j \in 1..Len(Window) :
             Window[j].eventType
               = IF args.catch_error_step_id # None
                    /\ Window[j].stepUuid = args.catch_error_step_id
                 THEN CatchSentinel ELSE None
       /\ Cardinality(SentinelEntries) <= 1
       /\ (pm.pc \in {"error_description", "cause_analysis"} /\ SentinelEntries # {})
          => pm.error_description.split
       /\ (pm.pc = "cause_analysis" /\ SentinelEntries # {})
          => pm.cause_analysis.split

CatchReported ==
    /\ ret # NotReturned
    /\ pof.located.failed_step_id # None
    /\ pof.located.catch_error_step_id # None

\* C24: whenever determine_point_of_failure reports a catch-trigger step id
\* together with a failed step id, the window process_message builds with
\* budget 10 + stepsBetweenCatchAndFailure holds the entry of the
\* catch-trigger step, the one carrying the sentinel label.
C24_WindowReachesTrigger ==
    CatchReported
    => /\ ret.value.raised = None
       /\ \E j \in 1..Len(ret.value.preceding_steps_log) :
             /\ ret.value.preceding_steps_log[j].stepUuid
                  = pof.located.catch_error_step_id
             /\ ret.value.preceding_steps_log[j].eventType = CatchSentinel

\* TASK_FAILED directly follows the nearest preceding STEP_COMPLETED.
FailureWindowIsBoundaryOnly ==
    /\ HasTaskFailed
    /\ last_completed_index(log_entries, task_failed_index(log_entries)) # 0
    /\ task_failed_index(log_entries)
         = last_completed_index(log_entries, task_failed_index(log_entries)) + 1

\* C28: when TASK_FAILED directly follows the nearest preceding STEP_COMPLETED
\* the location returned names no failed step, so the completed boundary step
\* is not reported as failed, and process_message stops with the error reply
\* instead of building a window for that step and diagnosing it.
C28_BoundaryNotBlamed ==
    (pof.done /\ FailureWindowIsBoundaryOnly)
    => /\ pof.located.failed_step_id = None
       /\ ret # NotReturned
            => /\ ret.value.raised # None
               /\ ret.value.calls = <<"determine_point_of_failure">>

(***************************************************************************)
(* Claims about the fusion of the hits of one record                       *)
(***************************************************************************)
\* The fused score the record has after its first k hits.
FusedAfter(k) == combine_hits(<<>>, SubSeq(args.hits, 1, k))[1].score
Fused == ret.combined_results[1]

\* C23: after any sequence of hits for one historical record, in any field
\* order, the fused score never exceeds max_score, max_score is the largest
\* weighted hit score seen, appearances is the number of hits, and no further
\* hit lowered the fused score.
C23_FusionBounded ==
    args.hits # <<>>
    => /\ Len(ret.combined_results) = 1
       /\ Fused.score <= Fused.max_score
       /\ Fused.max_score
            = Max({weighted_score(args.hits[i]) : i \in 1..Len(args.hits)})
       /\ Fused.appearances = Len(args.hits)
       /\ Fused.score = FusedAfter(Len(args.hits))
       /\ \A k \in 1..(Len(args.hits) - 1) : FusedAfter(k + 1) >= FusedAfter(k)

\* C23 witness: three hits with rising weighted scores, through fields visited
\* against the order of vector_weights, left a fused score above the first hit
\* and below the strongest one.
C23_Witness ==
    /\ Len(args.hits) = 3
    /\ weighted_score(args.hits[1]) < weighted_score(args.hits[2])
    /\ weighted_score(args.hits[2]) < weighted_score(args.hits[3])
    /\ FieldIndex(args.hits[1].field) > FieldIndex(args.hits[2].field)
    /\ Fused.score > weighted_score(args.hits[1])
    /\ Fused.score < Fused.max_score

(***************************************************************************)
(* Claims about the error overviews                                        *)
(***************************************************************************)
HistoricalShown == ret.value.historical_error_overview.errors
SimilarShown == ret.value.similar_error_overview.errors
HistoricalCount == Len(args.uardi_context.resolved_errors)

\* C26: every record of the historical overview has been accepted by
\* is_valid_resolved_error, the records are in descending order of resolution
\* time, and there are at most 15 of them.
C26_HistoricalFiltered ==
    ret # NotReturned
    => /\ \A j \in 1..Len(HistoricalShown) : is_valid_resolved_error(HistoricalShown[j])
       /\ \A j \in 1..(Len(HistoricalShown) - 1) :
             HistoricalShown[j].datetime_of_resolved
               >= HistoricalShown[j + 1].datetime_of_resolved
       /\ Len(HistoricalShown) <= 15

\* C30: for every number of historical and similar records the overviews hold
\* at most 30 historical records and at most min(15, 30 - number of historical
\* records) similar records, together never more than 30; with 30 or more
\* historical records no similar record is included.
C30_OverviewCaps ==
    ret # NotReturned
    => /\ Len(HistoricalShown) <= 30
       /\ Len(SimilarShown) <= Max({0, Min({15, 30 - HistoricalCount})})
       /\ Len(HistoricalShown) + Len(SimilarShown) <= 30
       /\ HistoricalCount >= 30 => SimilarShown = <<>>

(***************************************************************************)
(* Claims about process_message                                            *)
(***************************************************************************)
Texts == {pm.replies[i].text : i \in 1..Len(pm.replies)}
InSeq(x, q) == \E i \in 1..Len(q) : q[i] = x
ErrorTexts ==
    {"Invalid data format", "external services", "AI service", "Slack",
     "unexpected error", "unable to extract", "manual run",
     "Failed to update external systems"}
FormattingExhausted == pm.attempt = BlockMaxRetries /\ pm.summary_content = None

\* C21: in the final formatting stage the first attempt uses the primary
\* model, every attempt after a structural-validation failure uses the
\* fallback model, at most 3 attempts are made, and when every attempt has
\* failed a plain-text condensed summary is posted to the originating thread.
C21_FormattingDegrades ==
    pm.pc # "idle"
    => /\ pm.models # <<>> => pm.models[1] = PrimaryModel
       /\ \A k \in 2..Len(pm.models) : pm.models[k] = FallbackModel
       /\ Len(pm.models) <= 3
       /\ pm.attempt = Len(pm.models)
       /\ (pm.pc = "done" /\ FormattingExhausted)
          => \E i \in 1..Len(pm.replies) :
                /\ pm.replies[i].text \in {"summary", "apology and summary"}
                /\ pm.replies[i].thread_ts = BaseEvent.ts

\* C22: every pipeline execution that was started ends with at least one
\* user-visible outcome posted as a reply in the thread of the originating
\* message: the formatted analysis, the summary with apology, or an error
\* message; no failure ends the run with only a log line.
C22_AlwaysVisibleOutcome ==
    pm.pc = "done"
    => \E i \in 1..Len(pm.replies) :
          /\ pm.replies[i].text \in {"analysis", "apology and summary"} \cup ErrorTexts
          /\ pm.replies[i].thread_ts = BaseEvent.ts
          /\ pm.replies[i].channel = BaseEvent.channel

\* C27: in every diagnosis that reaches solution generation
\* search_similar_errors was called exactly twice, with different threshold
\* pairs: first before perform_cause_analysis with the cause fields of the
\* lookup object absent, then after perform_cause_analysis and
\* summarize_ai_cause with both cause fields set to the summarized cause; only
\* the second result feeds solution generation.
C27_TwoSearches ==
    (pm.pc # "idle" /\ InSeq("solution_generation", pm.calls) /\ pm.solution_from # 0)
    => /\ Len(pm.searches) = 2
       /\ <<pm.searches[1].absolute_threshold, pm.searches[1].relative_threshold>>
            # <<pm.searches[2].absolute_threshold, pm.searches[2].relative_threshold>>
       /\ pm.searches[1].dev_cause = None
       /\ pm.searches[1].dev_cause_enriched = None
       /\ ~InSeq("cause_analysis", pm.searches[1].calls_before)
       /\ InSeq("cause_analysis", pm.searches[2].calls_before)
       /\ InSeq("summarize_ai_cause", pm.searches[2].calls_before)
       /\ pm.searches[2].dev_cause = "human_like_ai_cause"
       /\ pm.searches[2].dev_cause_enriched = "human_like_ai_cause"
       /\ pm.solution_from = 2

====
